---------------------------- MODULE Spec2Model ----------------------------
(***************************************************************************)
(* Model of the task tracker bot (src/tracker_bot.py) and of the cache of  *)
(* the notifier (src/notifier.py).  Of the bot: the interaction            *)
(* state store (StateManager), the rate limiter (RateLimiter), the toggle  *)
(* path of TaskTrackerBot.handle_callback under asyncio's cooperative      *)
(* scheduling, the parser / renderer pair (parse_tasks, message_text) with *)
(* the control layout (keyboard), and the webhook endpoint with its        *)
(* outbound calls (webhook_handler, TelegramAPIClient).                    *)
(*                                                                         *)
(* Ten specifications share the variables; each leaves the variables of    *)
(* the other parts at their initial values:                                *)
(*   Spec        the state store driven by get and set, with a clock       *)
(*   SpecRate    the rate limiter driven by allow, with a clock            *)
(*   SpecToggle  concurrent toggle handlers on one event loop              *)
(*   SpecParse   parse_tasks and message_text applied to bounded texts     *)
(*   SpecRender  message_text and keyboard applied to long checklists      *)
(*   SpecHook    webhook requests handled one at a time, call by call      *)
(*   SpecClient  send and edit applied to texts around the length limit    *)
(*   SpecCodec   control identifiers written by keyboard and decoded       *)
(*   SpecBackoff one call of TelegramAPIClient.request on a clock          *)
(*   SpecCache   the notifier's CacheManager driven by get and set         *)
(***************************************************************************)
EXTENDS Integers, Sequences, FiniteSets, TLC

(***************************************************************************)
(* Sizes.  The program's capacities and durations are scaled down so that  *)
(* the cases the properties are about (a full store, an expired entry, a   *)
(* full rate window) occur within a few steps; the code compares against   *)
(* them with the same operators as in the source.                          *)
(***************************************************************************)
\* tracker_bot.py:30 MAX_STATE_SIZE = 1000, scaled
MAX_STATE_SIZE == 2
\* tracker_bot.py:31 STATE_TTL_SECONDS = 86400, scaled
STATE_TTL_SECONDS == 2
\* the clock runs from 0 to MaxTime: long enough for an entry to reach the TTL
MaxTime == STATE_TTL_SECONDS
\* tracker_bot.py:77 the threshold 100 of RateLimiter.allow, scaled
RATE_LIMIT == 2
\* tracker_bot.py:76 the window 60 (seconds) of RateLimiter.allow, scaled
RATE_WINDOW == 2
\* request origins (client addresses)
Origins == {"ip1", "ip2"}
\* toggle events handled concurrently
NumHandlers == 2
Handlers == 1..NumHandlers

\* the three sections, as named in handle_callback's section_map values
Sections == {"day", "cant_do", "evening"}
\* task indices a toggle can carry
Indices == {0, 1}
\* store keys f"{msg_id}_{section}" (line 273), kept as the pair it is built
\* from: msg_id is an integer and no section name holds a digit, so the
\* formatted string determines the pair.  One key more than the store holds.
StoreKeys == {<<m, "day">> : m \in 1..(MAX_STATE_SIZE + 1)}
\* the completion sets written by a direct set (the store never looks inside)
StateVals == {{}, {0}}
NoKey == <<0, "none">>
\* the two locks: StateManager.lock (line 85) and RateLimiter.lock (line 71)
Locks == {"state", "limiter"}

VARIABLES
    store,      \* StateManager.store: the OrderedDict as a sequence of entries, first = oldest position
    now,        \* time.time()
    lastOp,     \* the last store operation: its kind, its key, the set get returned, the entries it removed
    touch,      \* history: for each key in the store, when it was last touched and last set, in order of last touch
    requests,   \* RateLimiter.requests: origin -> list of the recorded request times
    lastAllow,  \* the last RateLimiter.allow: its origin, its time, its answer
    admitted,   \* history: origin -> the times of all its admitted requests
    deniedAt,   \* history: origin -> the time of its last denied request, -1 when none
    pc,         \* handler -> where its handle_callback task stands
    running,    \* the handler whose task the event loop is running, 0 when the loop is free
    hsec,       \* handler -> section decoded from its control identifier (line 268)
    hidx,       \* handler -> idx decoded from its control identifier (line 266)
    hstate,     \* handler -> its local `state` (lines 274-276)
    hfull,      \* handler -> its local `full_done` (lines 280-285), a missing section read as the empty set
    hbefore,    \* history: handler -> the set its get of line 274 returned
    hfresh,     \* history: handler -> whether its get of line 274 found no entry
    overlapped, \* history: whether a handler ran its get while another handler's task was suspended
    held,       \* lock -> the handler whose task holds StateManager.lock / RateLimiter.lock, 0 when free
    text,       \* the text of the incoming daily message
    tasks,      \* section -> the task labels parse_tasks found in text
    rendered,   \* the checklist body message_text produced from tasks
    reparsed,   \* section -> the task labels parse_tasks found in the rendered checklist
    stage,      \* how far the message has come: "idle", "received", "parsed", "rendered", "reparsed"
    kb,         \* the control layout keyboard produced from tasks: its buttons, row by row
    wpc,        \* webhook_handler: "idle", "attempt" / "sleep" / "returned" inside
                \* TelegramAPIClient.request, "respond" when about to answer
    wcalls,     \* the outbound calls the handler has still to make, the current one first
    ri,         \* the loop index i of TelegramAPIClient.request for the current call
    chat,       \* the messages the platform holds, by message id: text and control layout
    routs,      \* history: the outcomes of the attempts of the current call
    rret,       \* what the current call has returned: "pending", "result" or "None"
    wreq,       \* history: the webhook request being handled, or handled last
    wres,       \* history: the response to it (status 0 while it is being handled)
    wpre,       \* history: the store and the rate limiter records when it arrived
    wacts,      \* history: what the outbound calls made while handling it came to
    ctext,      \* the text handed to TelegramAPIClient.send or edit
    cwire,      \* the call the client transmits for it, NoCall before
    qtask,      \* the task a button is made for: its section and its index
    qdata,      \* the callback_data of that button, character by character
    qdecoded,   \* what handle_callback decodes from it: section and idx
    bpc,        \* TelegramAPIClient.request with its timing: "idle", "attempt", "sleep", "done"
    bi,         \* its loop index i
    bclock,     \* the time, in ticks
    bwake,      \* the time the asyncio.sleep of line 124 is due to end
    blog,       \* history: the attempts started and ended and the return, with their times
    ncache,     \* notifier.py CacheManager._cache: the dict as a sequence of entries, oldest insertion first
    nclock,     \* datetime.now(timezone.utc) of the notifier, in ticks
    nlast       \* the last CacheManager operation: its kind, key, ttl, what get returned and the age of the entry it found

storeVars == <<store, lastOp, touch>>
rateVars == <<requests, lastAllow, admitted, deniedAt>>
handlerVars == <<pc, running, hsec, hidx, hstate, hfull, hbefore, hfresh, overlapped, held>>
parseVars == <<text, tasks, rendered, reparsed, stage, kb>>
hookVars == <<wpc, wcalls, ri, chat, routs, rret, wreq, wres, wpre, wacts>>
clientVars == <<ctext, cwire>>
codecVars == <<qtask, qdata, qdecoded>>
backoffVars == <<bpc, bi, bclock, bwake, blog>>
cacheVars == <<ncache, nclock, nlast>>
vars == <<store, now, lastOp, touch, requests, lastAllow, admitted, deniedAt,
          pc, running, hsec, hidx, hstate, hfull, hbefore, hfresh, overlapped, held,
          text, tasks, rendered, reparsed, stage, kb,
          wpc, wcalls, ri, chat, routs, rret, wreq, wres, wpre, wacts,
          ctext, cwire,
          qtask, qdata, qdecoded,
          bpc, bi, bclock, bwake, blog,
          ncache, nclock, nlast>>

----------------------------------------------------------------------------
(* OrderedDict operations *)

Min(S) == CHOOSE x \in S : \A y \in S : x <= y

KeysOf(st) == {st[i].key : i \in 1..Len(st)}

InStore(st, key) == key \in KeysOf(st)

PosOf(st, key) == CHOOSE i \in 1..Len(st) : st[i].key = key

Entry(st, key) == st[PosOf(st, key)]

\* del self.store[key]
Del(st, key) == SelectSeq(st, LAMBDA e : e.key # key)

\* self.store.move_to_end(key)
MoveToEnd(st, key) == Append(Del(st, key), Entry(st, key))

\* self.store[key] = (ts, state): in place when the key exists, at the end otherwise
Assign(st, key, ts, state) ==
    IF InStore(st, key)
    THEN [i \in 1..Len(st) |-> IF st[i].key = key
                               THEN [key |-> key, ts |-> ts, state |-> state]
                               ELSE st[i]]
    ELSE Append(st, [key |-> key, ts |-> ts, state |-> state])

\* self.store.popitem(last=True): the mutant of PopItem
PopItemLast(st) == SubSeq(st, 1, Len(st) - 1)

\* self.store.popitem(last=False)
PopItem(st) == Tail(st)

----------------------------------------------------------------------------
(* StateManager *)

\* an entry is kept whatever its age: the mutant of Live
AlwaysLive(ts, t) == TRUE

\* line 91: time.time() - ts < STATE_TTL_SECONDS
Live(ts, t) == t - ts < STATE_TTL_SECONDS

\* a get that leaves the order alone: a mutant of TouchOnGet
NoTouchOnGet(st, key, t) == st

\* a get that also rewrites the entry's timestamp: a mutant of TouchOnGet
BumpOnGet(st, key, t) ==
    MoveToEnd(Assign(st, key, t, Entry(st, key).state), key)

\* line 92: what get does to a live entry
TouchOnGet(st, key, t) == MoveToEnd(st, key)

\* lines 87-95: the store after get(key) at time t, and the set returned
StoreGet(st, key, t) ==
    IF InStore(st, key)
    THEN IF Live(Entry(st, key).ts, t)
         THEN [store |-> TouchOnGet(st, key, t), val |-> Entry(st, key).state]
         ELSE [store |-> Del(st, key), val |-> {}]
    ELSE [store |-> st, val |-> {}]

\* eviction only above the cap: the mutant of AtCapacity
OverCapacity(st) == Len(st) > MAX_STATE_SIZE

\* line 99: len(self.store) >= MAX_STATE_SIZE
AtCapacity(st) == Len(st) >= MAX_STATE_SIZE

\* lines 97-102: the store after set(key, state) at time t
StoreSet(st, key, state, t) ==
    LET st1 == IF AtCapacity(st) THEN PopItem(st) ELSE st
    IN  MoveToEnd(Assign(st1, key, t, state), key)

\* a toggle that only ever adds the index: the mutant of Flip
AddOnly(state, idx) == state \cup {idx}

\* line 275: state.symmetric_difference_update([idx])
Flip(state, idx) == (state \ {idx}) \cup ({idx} \ state)

----------------------------------------------------------------------------
(* RateLimiter *)

\* self.requests.get(key, [])
Lookup(reqs, key) == IF key \in DOMAIN reqs THEN reqs[key] ELSE <<>>

\* self.requests[key] = value
Store(reqs, key, value) ==
    [k \in DOMAIN reqs \cup {key} |-> IF k = key THEN value ELSE reqs[k]]

\* line 76: now - t < 60
InWindow(ts, t) == t - ts < RATE_WINDOW

\* a threshold that lets one request too many through: the mutant of OverLimit
OverLimitLate(n) == n > RATE_LIMIT

\* line 77: len(self.requests.get(key, [])) >= 100
OverLimit(n) == n >= RATE_LIMIT

\* an allow that records the request before it counts: the mutant of RateAllow
RateAllowRecordFirst(reqs, key, t) ==
    LET pruned == SelectSeq(Lookup(reqs, key), LAMBDA x : InWindow(x, t))
    IN  [requests |-> Store(reqs, key, Append(pruned, t)),
         ok |-> ~OverLimit(Len(pruned))]

\* lines 73-80: the records after allow(key) at time t, and its answer
RateAllow(reqs, key, t) ==
    LET pruned == SelectSeq(Lookup(reqs, key), LAMBDA x : InWindow(x, t))
    IN  IF OverLimit(Len(pruned))
        THEN [requests |-> Store(reqs, key, pruned), ok |-> FALSE]
        ELSE [requests |-> Store(reqs, key, Append(pruned, t)), ok |-> TRUE]

----------------------------------------------------------------------------
(* History kept beside the store, written by the operations and read only   *)
(* by the properties: one record per key in the store, in the order of the  *)
(* keys' last get or set, with the time of that touch and of the last set.  *)

TouchKeep(th, keys) == SelectSeq(th, LAMBDA e : e.key \in keys)

Touched(th, key) == key \in {th[i].key : i \in 1..Len(th)}

TouchOf(th, key) ==
    IF Touched(th, key)
    THEN th[CHOOSE i \in 1..Len(th) : th[i].key = key]
    ELSE [key |-> key, at |-> -1, setAt |-> -1]

\* key was read live at time t
TouchRead(th, key, t) ==
    Append(SelectSeq(th, LAMBDA e : e.key # key), [TouchOf(th, key) EXCEPT !.at = t])

\* key was written at time t
TouchWrite(th, key, t) ==
    Append(SelectSeq(th, LAMBDA e : e.key # key), [key |-> key, at |-> t, setAt |-> t])

\* the history records of the keys an operation removed from the store
Removed(th, before, after) ==
    {TouchOf(th, k) : k \in KeysOf(before) \ KeysOf(after)}

\* the key in the store whose last get or set is the oldest
LeastRecentlyTouched(th) == IF th = <<>> THEN NoKey ELSE Head(th).key

----------------------------------------------------------------------------
(* The store driven directly: StateManager.get, StateManager.set and the    *)
(* clock.                                                                   *)

\* the values of the history of a request while no request is being handled
NoRequest ==
    [xff |-> <<>>, remote |-> "none", kind |-> "none", data |-> <<>>, msg |-> 0,
     fromChat |-> FALSE, hasText |-> FALSE, text |-> <<>>]
NoResponse == [status |-> 0, classified |-> FALSE]
NoSnapshot == [store |-> <<>>, requests |-> <<>>, layout |-> FALSE, saved |-> FALSE]
NoActs == [made |-> FALSE, exhausted |-> FALSE]

\* no cache operation
NoCacheOp == [op |-> "init", key |-> "none", ttl |-> 0, ret |-> "None", age |-> -1]

\* no task
NoTask == [section |-> "none", idx |-> -1]

InitServer ==
    /\ store = <<>>
    /\ now = 0
    /\ lastOp = [op |-> "init", key |-> NoKey, val |-> {}, removed |-> {}]
    /\ touch = <<>>
    /\ requests = <<>>
    /\ lastAllow = [key |-> "none", at |-> 0, ok |-> TRUE]
    /\ admitted = [o \in Origins |-> <<>>]
    /\ deniedAt = [o \in Origins |-> -1]
    /\ pc = [h \in Handlers |-> "idle"]
    /\ running = 0
    /\ hsec = [h \in Handlers |-> "day"]
    /\ hidx = [h \in Handlers |-> 0]
    /\ hstate = [h \in Handlers |-> {}]
    /\ hfull = [h \in Handlers |-> [sec \in Sections |-> {}]]
    /\ hbefore = [h \in Handlers |-> {}]
    /\ hfresh = [h \in Handlers |-> FALSE]
    /\ overlapped = FALSE
    /\ held = [l \in Locks |-> 0]
    /\ wpc = "idle"
    /\ wcalls = <<>>
    /\ ri = 0
    /\ chat = <<>>
    /\ routs = <<>>
    /\ rret = "pending"
    /\ wreq = NoRequest
    /\ wres = NoResponse
    /\ wpre = NoSnapshot
    /\ wacts = NoActs
    /\ qtask = NoTask
    /\ qdata = <<>>
    /\ qdecoded = NoTask
    /\ bpc = "idle"
    /\ bi = 0
    /\ bclock = 0
    /\ bwake = 0
    /\ blog = <<>>
    /\ ncache = <<>>
    /\ nclock = 0
    /\ nlast = NoCacheOp

\* no call
NoCall == [method |-> "none", msg |-> 0, text |-> <<>>, layout |-> FALSE]

\* no client call under way
InitClient ==
    /\ ctext = <<>>
    /\ cwire = NoCall

NoTasks == [sec \in Sections |-> <<>>]

\* no message under way
InitNoMessage ==
    /\ text = <<>>
    /\ tasks = NoTasks
    /\ rendered = <<>>
    /\ reparsed = NoTasks
    /\ stage = "idle"
    /\ kb = <<>>

Init ==
    /\ InitServer
    /\ InitNoMessage
    /\ InitClient

\* StateManager.get(key) with its history
DoGet(key) ==
    LET r == StoreGet(store, key, now)
    IN  /\ store' = r.store
        /\ lastOp' = [op |-> "get", key |-> key, val |-> r.val,
                      removed |-> Removed(touch, store, r.store)]
        /\ touch' = IF InStore(r.store, key)
                    THEN TouchRead(touch, key, now)
                    ELSE TouchKeep(touch, KeysOf(r.store))

\* StateManager.set(key, state) with its history
DoSet(key, state) ==
    LET st == StoreSet(store, key, state, now)
    IN  /\ store' = st
        /\ lastOp' = [op |-> "set", key |-> key, val |-> state,
                      removed |-> Removed(touch, store, st)]
        /\ touch' = TouchWrite(TouchKeep(touch, KeysOf(st)), key, now)

\* await self.state.get(key)
Get(key) ==
    /\ DoGet(key)
    /\ UNCHANGED <<now, rateVars, handlerVars, parseVars, hookVars, clientVars, codecVars, backoffVars, cacheVars>>

\* await self.state.set(key, state)
Set(key, state) ==
    /\ DoSet(key, state)
    /\ UNCHANGED <<now, rateVars, handlerVars, parseVars, hookVars, clientVars, codecVars, backoffVars, cacheVars>>

\* time passes
Tick ==
    /\ now < MaxTime
    /\ now' = now + 1
    /\ UNCHANGED <<storeVars, rateVars, handlerVars, parseVars, hookVars, clientVars, codecVars, backoffVars, cacheVars>>

Next ==
    \/ \E key \in StoreKeys : Get(key)
    \/ \E key \in StoreKeys, state \in StateVals : Set(key, state)
    \/ Tick

Spec == Init /\ [][Next]_vars

----------------------------------------------------------------------------
(* The rate limiter driven directly: RateLimiter.allow and the clock *)

\* await self.limiter.allow(key)
Allow(key) ==
    LET r == RateAllow(requests, key, now)
    IN  /\ requests' = r.requests
        /\ lastAllow' = [key |-> key, at |-> now, ok |-> r.ok]
        /\ admitted' = IF r.ok THEN [admitted EXCEPT ![key] = Append(@, now)] ELSE admitted
        /\ deniedAt' = IF r.ok THEN deniedAt ELSE [deniedAt EXCEPT ![key] = now]
        /\ UNCHANGED <<now, storeVars, handlerVars, parseVars, hookVars, clientVars, codecVars, backoffVars, cacheVars>>

NextRate ==
    \/ \E key \in Origins : Allow(key)
    \/ Tick

SpecRate == Init /\ [][NextRate]_vars

----------------------------------------------------------------------------
(* Toggle events handled concurrently: the toggle branch of handle_callback  *)
(* (lines 263-293), one asyncio task per event on a single event loop.  A    *)
(* task runs until an await suspends it; only then the loop runs another.    *)

\* the message all the toggle events belong to
MsgId == 1

KeyOf(h) == <<MsgId, hsec[h]>>

\* the awaits behind which a network round trip stands (TelegramAPIClient.request)
NetworkAwaits == {"answer_cb", "edit"}

\* every await hands the loop to another task: the mutant of Suspends
SuspendsAtEveryAwait(point) == TRUE

\* Whether the await at `point` suspends the task.  StateManager.get and set
\* await nothing but their lock (lines 88, 98) and hold it over no await, so
\* the lock is free whenever a task runs and asyncio.Lock.acquire returns
\* without yielding to the loop; the calls of lines 291-292 wait for the network.
Suspends(point) == point \in NetworkAwaits

\* the last read of the re-render keeps the lock, over the outbound calls
\* that follow it: the mutant of LockAfter
LockKeptOverCalls(h, point) == IF point = "read_evening" THEN h ELSE 0

\* The holder of a lock when the task of h leaves the call at `point`:
\* allow, get and set take their lock with `async with` (lines 74, 88, 98)
\* around a body without await, and the block releases it on every exit.
LockAfter(h, point) == 0

\* the lock is free to be taken: acquire returns at once
Free(lock) == held[lock] = 0

\* the loop can run (or go on running) the task of h
CanRun(h) == running \in {0, h}

\* the loop after the task of h has passed the await at `point`
After(h, point) == IF Suspends(point) THEN 0 ELSE h

\* a toggle event arrives: webhook_handler creates the task, which passes the
\* rate limiter (line 303) and waits for the request body (line 306) before
\* handle_callback decodes section and idx
HStart(h, sec, idx) ==
    /\ pc[h] = "idle"
    /\ running = 0
    /\ Free("limiter")
    /\ held' = [held EXCEPT !["limiter"] = LockAfter(h, "allow")]
    /\ pc' = [pc EXCEPT ![h] = "get"]
    /\ hsec' = [hsec EXCEPT ![h] = sec]
    /\ hidx' = [hidx EXCEPT ![h] = idx]
    /\ UNCHANGED <<running, hstate, hfull, hbefore, hfresh, overlapped>>
    /\ UNCHANGED <<now, storeVars, rateVars, parseVars, hookVars, clientVars, codecVars, backoffVars, cacheVars>>

\* line 274: state = await self.state.get(key)
HGet(h) ==
    /\ pc[h] = "get"
    /\ CanRun(h)
    /\ Free("state")
    /\ DoGet(KeyOf(h))
    /\ held' = [held EXCEPT !["state"] = LockAfter(h, "get")]
    /\ hstate' = [hstate EXCEPT ![h] = lastOp'.val]
    /\ hbefore' = [hbefore EXCEPT ![h] = lastOp'.val]
    /\ hfresh' = [hfresh EXCEPT ![h] = ~InStore(store, KeyOf(h))]
    /\ overlapped' = (overlapped \/ \E g \in Handlers \ {h} : pc[g] \notin {"idle", "get", "done"})
    /\ pc' = [pc EXCEPT ![h] = "flip"]
    /\ running' = After(h, "get")
    /\ UNCHANGED <<hsec, hidx, hfull>>
    /\ UNCHANGED <<now, rateVars, parseVars, hookVars, clientVars, codecVars, backoffVars, cacheVars>>

\* line 275: state.symmetric_difference_update([idx])
HFlip(h) ==
    /\ pc[h] = "flip"
    /\ CanRun(h)
    /\ hstate' = [hstate EXCEPT ![h] = Flip(hstate[h], hidx[h])]
    /\ pc' = [pc EXCEPT ![h] = "set"]
    /\ running' = h
    /\ UNCHANGED <<hsec, hidx, hfull, hbefore, hfresh, overlapped, held>>
    /\ UNCHANGED <<now, storeVars, rateVars, parseVars, hookVars, clientVars, codecVars, backoffVars, cacheVars>>

\* line 276: await self.state.set(key, state)
HSet(h) ==
    /\ pc[h] = "set"
    /\ CanRun(h)
    /\ Free("state")
    /\ DoSet(KeyOf(h), hstate[h])
    /\ held' = [held EXCEPT !["state"] = LockAfter(h, "set")]
    /\ pc' = [pc EXCEPT ![h] = "read_day"]
    /\ running' = After(h, "set")
    /\ UNCHANGED <<hsec, hidx, hstate, hfull, hbefore, hfresh, overlapped>>
    /\ UNCHANGED <<now, rateVars, parseVars, hookVars, clientVars, codecVars, backoffVars, cacheVars>>

ReadPoint(sec) ==
    CASE sec = "day" -> "read_day"
      [] sec = "cant_do" -> "read_cant_do"
      [] sec = "evening" -> "read_evening"

AfterRead(sec) ==
    CASE sec = "day" -> "read_cant_do"
      [] sec = "cant_do" -> "read_evening"
      [] sec = "evening" -> "answer"

\* lines 281-285: saved = await self.state.get(f"{msg_id}_{sec}") for the three
\* sections in turn; after the last one full_done[section] = state
HRead(h, sec) ==
    /\ pc[h] = ReadPoint(sec)
    /\ CanRun(h)
    /\ Free("state")
    /\ DoGet(<<MsgId, sec>>)
    /\ held' = [held EXCEPT !["state"] = LockAfter(h, ReadPoint(sec))]
    /\ hfull' = [hfull EXCEPT ![h] =
                    LET got == [@ EXCEPT ![sec] = lastOp'.val]
                    IN  IF sec = "evening" THEN [got EXCEPT ![hsec[h]] = hstate[h]] ELSE got]
    /\ pc' = [pc EXCEPT ![h] = AfterRead(sec)]
    /\ running' = After(h, "get")
    /\ UNCHANGED <<hsec, hidx, hstate, hbefore, hfresh, overlapped>>
    /\ UNCHANGED <<now, rateVars, parseVars, hookVars, clientVars, codecVars, backoffVars, cacheVars>>

\* line 291: await client.answer_cb(qid)
HAnswer(h) ==
    /\ pc[h] = "answer"
    /\ CanRun(h)
    /\ pc' = [pc EXCEPT ![h] = "edit"]
    /\ running' = After(h, "answer_cb")
    /\ UNCHANGED <<hsec, hidx, hstate, hfull, hbefore, hfresh, overlapped, held>>
    /\ UNCHANGED <<now, storeVars, rateVars, parseVars, hookVars, clientVars, codecVars, backoffVars, cacheVars>>

\* line 292: result = await client.edit(msg_id, new_text, reply_markup=new_kb)
HEdit(h) ==
    /\ pc[h] = "edit"
    /\ CanRun(h)
    /\ pc' = [pc EXCEPT ![h] = "done"]
    /\ running' = After(h, "edit")
    /\ UNCHANGED <<hsec, hidx, hstate, hfull, hbefore, hfresh, overlapped, held>>
    /\ UNCHANGED <<now, storeVars, rateVars, parseVars, hookVars, clientVars, codecVars, backoffVars, cacheVars>>

NextToggle ==
    \/ \E h \in Handlers, sec \in Sections, idx \in Indices : HStart(h, sec, idx)
    \/ \E h \in Handlers : HGet(h)
    \/ \E h \in Handlers : HFlip(h)
    \/ \E h \in Handlers : HSet(h)
    \/ \E h \in Handlers, sec \in Sections : HRead(h, sec)
    \/ \E h \in Handlers : HAnswer(h)
    \/ \E h \in Handlers : HEdit(h)

SpecToggle == Init /\ [][NextToggle]_vars

----------------------------------------------------------------------------
(* The parser and the renderer: parse_tasks (lines 167-182), truncate        *)
(* (184-185) and message_text (206-224).                                     *)
(*                                                                           *)
(* A text is a sequence of symbols.  A symbol is one character (" ", ":",    *)
(* "&", "(", ")", the letters "x" "y" of task labels, the word endings       *)
(* "-a" "-i" "-u"), the line break "NL", a glyph, an HTML tag, or a whole    *)
(* word that no operation looks into:                                        *)
(*   "SUN" "STOP" "MOON" "TARGET"      the section glyphs of the patterns    *)
(*   "BULLET" "UNCHECKED" "CHECKED"    the bullet and the two check boxes    *)
(*   "zadach" "delat"                  the stems the patterns search for     *)
(*   "Dnevnye" "Vechernie" "Nelzya" "Cel"   the other words of the patterns  *)
(*   upper-case spellings ("ZADACH", "-I", ...) as message_text writes them  *)
(*   "Zadach"                          the stem with a capital first letter  *)
(*   "Buy" "milk" "Call" "mom" "Smoke" the words of the scenario's labels    *)

IsSpace(c) == c \in {" ", "NL"}

\* re.IGNORECASE: two symbols match when their lower-case forms are equal
Fold(c) ==
    CASE c = "ZADACH" -> "zadach"
      [] c = "Zadach" -> "zadach"
      [] c = "DELAT" -> "delat"
      [] c = "-I" -> "-i"
      [] c = "DNEVNYE" -> "dnevnye"
      [] c = "Dnevnye" -> "dnevnye"
      [] c = "VECHERNIE" -> "vechernie"
      [] c = "Vechernie" -> "vechernie"
      [] c = "NELZYA" -> "nelzya"
      [] c = "Nelzya" -> "nelzya"
      [] c = "Cel" -> "cel"
      [] OTHER -> c

\* str.strip()
RECURSIVE LStrip(_)
LStrip(t) == IF t # <<>> /\ IsSpace(Head(t)) THEN LStrip(Tail(t)) ELSE t

RECURSIVE RStrip(_)
RStrip(t) == IF t # <<>> /\ IsSpace(t[Len(t)]) THEN RStrip(SubSeq(t, 1, Len(t) - 1)) ELSE t

Strip(t) == RStrip(LStrip(t))

\* the positions of sep in t
SepsOf(t, sep) == {i \in 1..Len(t) : t[i] = sep}

\* str.split(sep): the pieces of t between the occurrences of sep
RECURSIVE Split(_, _)
Split(t, sep) ==
    IF SepsOf(t, sep) = {} THEN <<t>>
    ELSE LET i == Min(SepsOf(t, sep))
         IN  <<SubSeq(t, 1, i - 1)>> \o Split(SubSeq(t, i + 1, Len(t)), sep)

\* sep.join(pieces)
RECURSIVE Join(_, _)
Join(pieces, sep) ==
    IF pieces = <<>> THEN <<>>
    ELSE IF Len(pieces) = 1 THEN pieces[1]
    ELSE pieces[1] \o <<sep>> \o Join(Tail(pieces), sep)

\* html.escape of one symbol: "&" becomes the five characters of its entity,
\* and the angle brackets of a tag become theirs
EscapeChar(c) ==
    CASE c = "&" -> <<"&", "a", "m", "p", ";">>
      [] c = "<b>" -> <<"&lt;b&gt;">>
      [] c = "</b>" -> <<"&lt;/b&gt;">>
      [] c = "<i>" -> <<"&lt;i&gt;">>
      [] c = "</i>" -> <<"&lt;/i&gt;">>
      [] OTHER -> <<c>>

\* html.escape
RECURSIVE Escape(_)
Escape(t) == IF t = <<>> THEN <<>> ELSE EscapeChar(Head(t)) \o Escape(Tail(t))

\* the lines that are not blank (if l.strip()), in order
RECURSIVE NonBlank(_)
NonBlank(ls) ==
    IF ls = <<>> THEN <<>>
    ELSE IF Strip(Head(ls)) # <<>> THEN <<Head(ls)>> \o NonBlank(Tail(ls))
    ELSE NonBlank(Tail(ls))

\* line 169: '\n'.join(html.escape(l.strip()) for l in text.splitlines() if l.strip())
Safe(t) ==
    LET ls == NonBlank(Split(t, "NL"))
    IN  Join([i \in 1..Len(ls) |-> Escape(Strip(ls[i]))], "NL")

\* the stem each pattern of SECTION_PATTERNS requires (lines 54-56)
Keyword(sec) == IF sec = "cant_do" THEN "delat" ELSE "zadach"

\* the symbols the lookahead of each pattern stops the section at
Terminators(sec) ==
    CASE sec = "day" -> {"STOP", "nelzya", "MOON", "vechernie", "TARGET", "cel"}
      [] sec = "cant_do" -> {"MOON", "vechernie", "TARGET", "cel"}
      [] sec = "evening" -> {"TARGET", "cel"}

\* \s* from position i: the first position at or after i that holds no space
RECURSIVE SkipSpace(_, _)
SkipSpace(t, i) == IF i <= Len(t) /\ IsSpace(t[i]) THEN SkipSpace(t, i + 1) ELSE i

\* the optional ending [аи]? of the stem of the day and evening patterns
SkipEnding(sec, t, i) ==
    IF sec # "cant_do" /\ i <= Len(t) /\ Fold(t[i]) \in {"-a", "-i"} THEN i + 1 ELSE i

\* :? from position i
SkipColon(t, i) == IF i <= Len(t) /\ t[i] = ":" THEN i + 1 ELSE i

\* pat.search(safe).span(1): where group 1 starts and ends in safe.
\* The optional groups before the stem hold no stem, so the leftmost match
\* is the one on the first occurrence of the stem; after the stem every part
\* is greedy and the lazy group ends at the first terminator or at the end.
Span(sec, safe) ==
    LET at == {i \in 1..Len(safe) : Fold(safe[i]) = Keyword(sec)}
    IN  IF at = {} THEN [found |-> FALSE, from |-> 1, upto |-> 0]
        ELSE LET from == SkipSpace(safe, SkipColon(safe, SkipSpace(safe, SkipEnding(sec, safe, Min(at) + 1))))
                 stops == {i \in from..Len(safe) : Fold(safe[i]) \in Terminators(sec)}
                 upto == IF stops = {} THEN Len(safe) ELSE Min(stops) - 1
             IN  [found |-> TRUE, from |-> from, upto |-> upto]

\* m.group(1) of line 173: the text of the span
Captured(sec, safe) ==
    LET m == Span(sec, safe)
    IN  [found |-> m.found, group |-> SubSeq(safe, m.from, m.upto)]

\* (?:\s*\([^)]+\))?\s*$ : what may follow the label in TASK_PATTERN
IsLabelEnd(rest) ==
    LET r == Strip(rest)
    IN  IF r = <<>> THEN TRUE
        ELSE /\ Len(r) >= 3
             /\ r[1] = "("
             /\ r[Len(r)] = ")"
             /\ \A i \in 2..(Len(r) - 1) : r[i] # ")"

\* TASK_PATTERN.search(line).group(1) for a stripped line that starts with
\* the bullet and holds more than the bullet: the shortest non-empty label
\* after the bullet and its spaces that IsLabelEnd can follow
TaskLabel(line) ==
    LET from == SkipSpace(line, 2)
        ends == {e \in from..Len(line) : IsLabelEnd(SubSeq(line, e + 1, Len(line)))}
    IN  SubSeq(line, from, Min(ends))

\* lines 175-180: the labels of the bullet lines of one captured section
RECURSIVE LabelsOf(_)
LabelsOf(ls) ==
    IF ls = <<>> THEN <<>>
    ELSE LET line == Strip(Head(ls))
         IN  IF line # <<>> /\ Head(line) = "BULLET" /\ Len(line) >= 2
             THEN <<Strip(TaskLabel(line))>> \o LabelsOf(Tail(ls))
             ELSE LabelsOf(Tail(ls))

\* TaskTrackerBot.parse_tasks
parse_tasks(t) ==
    LET safe == Safe(t)
    IN  [sec \in Sections |->
            LET m == Captured(sec, safe)
            IN  IF m.found THEN LabelsOf(Split(m.group, "NL")) ELSE <<>>]

\* str.rsplit(' ', 1)[0]: what stands before the last space, all of it when
\* there is no space
RSplitHead(t) ==
    LET at == SepsOf(t, " ")
    IN  IF at = {} THEN t ELSE SubSeq(t, 1, CHOOSE i \in at : \A j \in at : j <= i)

\* the length truncate cuts labels to (MAX_TASK_DISPLAY_LENGTH, line 32), scaled
MAX_TASK_DISPLAY_LENGTH == 4

\* TaskTrackerBot.truncate
truncate(t) ==
    IF Len(t) <= MAX_TASK_DISPLAY_LENGTH THEN t
    ELSE RSplitHead(SubSeq(t, 1, MAX_TASK_DISPLAY_LENGTH - 3)) \o <<".", ".", ".">>

\* the titles of message_text (line 209), each behind the "\n<b>" and before
\* the "</b>" of line 212
Title(sec) ==
    CASE sec = "day" -> <<"NL", "<b>", "DNEVNYE", " ", "ZADACH", "-I", ":", "</b>">>
      [] sec = "cant_do" -> <<"NL", "<b>", "NELZYA", " ", "DELAT", ":", "</b>">>
      [] sec = "evening" -> <<"NL", "<b>", "VECHERNIE", " ", "ZADACH", "-I", ":", "</b>">>

\* lines 211-215: the title of a section and one line per task, nothing for
\* a section without tasks
SectionLines(ts, done, sec) ==
    IF ts[sec] = <<>> THEN <<>>
    ELSE <<Title(sec)>> \o
         [i \in 1..Len(ts[sec]) |->
             <<IF (i - 1) \in done[sec] THEN "CHECKED" ELSE "UNCHECKED", " ">> \o truncate(ts[sec][i])]

\* n copies of c
Repeat(c, n) == [i \in 1..n |-> c]

\* A Python float (IEEE 754 binary64) has a significand of 53 bits, kept here
\* as its leading bit followed by 4 digits of 13 bits each, most significant
\* first.
Limb == 2^13

\* the digits with x added at the lowest place; a carry out of the digits
\* goes into the leading place
AddLow(limbs, x) ==
    LET n == Len(limbs)
        carry[j \in 1..(n + 1)] ==
            IF j = n + 1 THEN x ELSE (limbs[j] + carry[j + 1]) \div Limb
    IN  [j \in 1..n |-> IF j = 1 THEN limbs[1] + carry[2]
                        ELSE (limbs[j] + carry[j + 1]) % Limb]

\* the exact product of the digits with 100; the leading place takes what
\* exceeds the digits
Times100(limbs) ==
    LET n == Len(limbs)
        carry[j \in 1..(n + 1)] ==
            IF j = n + 1 THEN 0 ELSE (limbs[j] * 100 + carry[j + 1]) \div Limb
    IN  [j \in 1..n |-> IF j = 1 THEN limbs[1] * 100 + carry[2]
                        ELSE (limbs[j] * 100 + carry[j + 1]) % Limb]

\* the next n digits of r / total, and what is left of r behind them
RECURSIVE Digits(_, _, _)
Digits(r, total, n) ==
    IF n = 0 THEN <<>>
    ELSE <<(r * Limb) \div total>> \o Digits((r * Limb) % total, total, n - 1)

RECURSIVE Rest(_, _, _)
Rest(r, total, n) ==
    IF n = 0 THEN r ELSE Rest((r * Limb) % total, total, n - 1)

\* the binary places completed / total is shifted by to lie in [1, 2)
Shift(completed, total) ==
    CHOOSE s \in 0..30 :
        /\ completed * 2^s >= total
        /\ \A u \in 0..(s - 1) : completed * 2^u < total

\* a significand that rounding has carried to 2 is 1 with one shift less
Normal(m, k) ==
    IF m[1] = 2 THEN [limbs |-> <<1, 0, 0, 0, 0>>, shift |-> k - 1]
    ELSE [limbs |-> m, shift |-> k]

\* round to nearest, ties to even: left is twice what the digits leave of
\* the dividend
RoundQuotient(exact, left, total, k) ==
    Normal(AddLow(exact, IF left >= total /\ (left > total \/ exact[5] % 2 = 1)
                         THEN 1 ELSE 0), k)

\* completed / total as a float, for 0 < completed <= total: the significand
\* m with leading bit 1 and the shift k, the quotient being m / 2^(52 + k)
FloatDivAt(completed, total, k) ==
    RoundQuotient(<<1>> \o Digits(completed * 2^k - total, total, 4),
                  2 * Rest(completed * 2^k - total, total, 4), total, k)

\* completed / total of line 220
FloatDiv(completed, total) == FloatDivAt(completed, total, Shift(completed, total))

\* the product rounded to 53 bits, ties to even (g is the weight of the
\* lowest bit kept), and the fraction of the result cut off
RoundProduct(product, g, shift) ==
    AddLow([product EXCEPT ![5] = @ - (@ % g)],
           IF \/ 2 * (product[5] % g) > g
              \/ 2 * (product[5] % g) = g /\ (product[5] \div g) % 2 = 1
           THEN g ELSE 0)[1] \div 2^shift

\* the product of a significand with 100 has 6 or 7 bits more than a
\* significand holds
FloatInt(product, shift) ==
    RoundProduct(product, IF product[1] >= 128 THEN 128 ELSE 64, shift)

\* int(q * 100) for a float q
Times100Int(q) == FloatInt(Times100(q.limbs), q.shift)

\* line 220: perc = int(completed / total * 100), computed as Python computes
\* it: the quotient rounded to a float, its product with 100 rounded to a
\* float, and the fraction of that cut off
perc(completed, total) ==
    IF completed = 0 THEN 0 ELSE Times100Int(FloatDiv(completed, total))

\* lines 219-222: the progress line
ProgressText(completed, total, p) ==
    <<"NL", "<b>", "PROGRESS", ":", "</b>", " ">>
    \o Repeat("FULL", p \div 10) \o Repeat("EMPTY", 10 - p \div 10)
    \o <<" ", ToString(completed), "/", ToString(total), " ", "(", ToString(p), "%", ")">>

\* lines 219-222, with perc of line 220
ProgressLine(completed, total) ==
    ProgressText(completed, total, perc(completed, total))

\* TaskTrackerBot.message_text; done maps a section to the set of its
\* completed indices, the empty set standing for a section done has no key for
message_text(ts, done) ==
    LET total == Len(ts["day"]) + Len(ts["cant_do"]) + Len(ts["evening"])
        count(sec) == Cardinality({i \in 1..Len(ts[sec]) : (i - 1) \in done[sec]})
        completed == count("day") + count("cant_do") + count("evening")
        head == <<"<b>", "Otmet", " ", "vypolnennye", " ", "zadach", "-i", ":", "</b>", "NL">>
        foot == <<"NL", "<i>", "Nazhmi", " ", "na", " ", "zadach", "-u", " ", "->", " ", "otmetitsya", "</i>">>
    IN  Join(<<head>>
             \o SectionLines(ts, done, "day")
             \o SectionLines(ts, done, "cant_do")
             \o SectionLines(ts, done, "evening")
             \o (IF total > 0 THEN <<ProgressLine(completed, total)>> ELSE <<>>)
             \o <<foot>>, "NL")

\* MAX_CALLBACK_DATA_BYTES (line 33)
MAX_CALLBACK_DATA_BYTES == 64

\* one tag for every section: the mutant of Prefix
PrefixOfDay(sec) == "day"

\* the tag of a section in control identifiers (lines 190-192)
Prefix(sec) ==
    CASE sec = "day" -> "day"
      [] sec = "cant_do" -> "cant"
      [] sec = "evening" -> "eve"

\* the titles of the heading buttons (lines 190-192)
ButtonTitle(sec) ==
    CASE sec = "day" -> <<"DNEVNYE", " ", "ZADACH", "-I">>
      [] sec = "cant_do" -> <<"NELZYA", " ", "DELAT">>
      [] sec = "evening" -> <<"VECHERNIE", " ", "ZADACH", "-I">>

\* an identifier that carries the task label behind the index: the mutant of
\* CallbackData
CallbackDataWithLabel(prefix, i, task) == <<"toggle", prefix, ToString(i)>> \o task

\* line 199: data = f"toggle_{prefix}_{i}", as its parts between the underscores
CallbackData(prefix, i, task) == <<"toggle", prefix, ToString(i)>>

\* a button of the layout
Button(label, data) == [text |-> label, callback_data |-> data]

\* lines 195-201: the heading button of a section and one button per task,
\* each in a row of its own; nothing for a section without tasks
SectionRows(ts, done, sec) ==
    IF ts[sec] = <<>> THEN <<>>
    ELSE << <<Button(ButtonTitle(sec), <<"noop">>)>> >> \o
         [i \in 1..Len(ts[sec]) |->
             <<Button(<<IF (i - 1) \in done[sec] THEN "CHECKED" ELSE "UNCHECKED",
                        " ", ToString(i), ".", " ">> \o truncate(ts[sec][i]),
                      CallbackData(Prefix(sec), i - 1, ts[sec][i]))>>]

\* TaskTrackerBot.keyboard: the rows of inline_keyboard
keyboard(ts, done) ==
    SectionRows(ts, done, "day")
    \o SectionRows(ts, done, "cant_do")
    \o SectionRows(ts, done, "evening")
    \o << <<Button(<<"Sohranit", " ", "progress">>, <<"save">>),
            Button(<<"Otmenit">>, <<"cancel">>)>> >>

\* the entity of "&" read back as "&": of every occurrence of the entity
\* (no two overlap) only the "&" stays
Unescape(t) ==
    LET at == {i \in 1..(Len(t) - 4) : SubSeq(t, i, i + 4) = <<"&", "a", "m", "p", ";">>}
        kept == SelectSeq([i \in 1..Len(t) |-> i],
                          LAMBDA i : ~(\E e \in at : e < i /\ i <= e + 4))
    IN  [k \in 1..Len(kept) |-> t[kept[k]]]

\* msg['text'] of a message sent with parse_mode HTML (lines 131, 135, 242):
\* the platform keeps the tags as formatting and hands back the text without
\* them, the entities decoded
Shown(t) == Unescape(SelectSeq(t, LAMBDA c : c \notin {"<b>", "</b>", "<i>", "</i>"}))

\* the scenario text of the specification: the heading of the day tasks with
\* two bullets, then the heading of the prohibited ones with one
ScenarioText ==
    <<"Zadach", "-i", ":", "NL",
      "BULLET", " ", "Buy", " ", "milk", "NL",
      "BULLET", " ", "Call", " ", "mom", "NL",
      "Nelzya", " ", "delat", ":", "NL",
      "BULLET", " ", "Smoke">>

\* the lines incoming messages are made of
InputLines ==
    { <<"zadach", "-i", ":">>,
      <<"SUN", " ", "Dnevnye", " ", "zadach", "-i", ":">>,
      <<"STOP", " ", "Nelzya", " ", "delat", ":">>,
      <<"MOON", " ", "Vechernie", " ", "zadach", "-i", ":">>,
      <<"BULLET", " ", "x">>,
      <<" ", "BULLET", "y", " ", "(", "x", ")", " ">>,
      <<"BULLET", " ", "x", "&", "y", " ", "x", "y">>,
      <<"TARGET", " ", "Cel", ":", " ", "x">>,
      <<"zadach", "-i", ":", " ", "BULLET", " ", "x", " ", "BULLET", " ", "y">> }

\* the most lines an incoming message has
MaxLines == 3

\* the incoming messages
InputTexts ==
    UNION { { Join(ls, "NL") : ls \in [1..n -> InputLines] } : n \in 1..MaxLines }

\* the completion states a checklist is rendered with
DoneStates == [Sections -> SUBSET Indices]

\* a daily message has arrived
InitParse ==
    /\ InitServer
    /\ text \in InputTexts \cup {ScenarioText}
    /\ tasks = NoTasks
    /\ rendered = <<>>
    /\ reparsed = NoTasks
    /\ stage = "received"
    /\ kb = <<>>
    /\ InitClient

\* lines 228, 287: tasks = self.parse_tasks(text)
Parse ==
    /\ stage = "received"
    /\ tasks' = parse_tasks(text)
    /\ stage' = "parsed"
    /\ UNCHANGED <<text, rendered, reparsed, kb>>
    /\ UNCHANGED <<now, storeVars, rateVars, handlerVars, hookVars, clientVars, codecVars, backoffVars, cacheVars>>

\* lines 231-232, 288-289: self.message_text(tasks, done) and
\* self.keyboard(tasks, done)
Render(done) ==
    /\ stage = "parsed"
    /\ rendered' = message_text(tasks, done)
    /\ kb' = keyboard(tasks, done)
    /\ stage' = "rendered"
    /\ UNCHANGED <<text, tasks, reparsed>>
    /\ UNCHANGED <<now, storeVars, rateVars, handlerVars, hookVars, clientVars, codecVars, backoffVars, cacheVars>>

\* lines 242, 287: a toggle event parses the checklist again, as the text
\* message_text wrote (asShown false) or as the platform hands it back
Reparse(asShown) ==
    /\ stage = "rendered"
    /\ reparsed' = parse_tasks(IF asShown THEN Shown(rendered) ELSE rendered)
    /\ stage' = "reparsed"
    /\ UNCHANGED <<text, tasks, rendered, kb>>
    /\ UNCHANGED <<now, storeVars, rateVars, handlerVars, hookVars, clientVars, codecVars, backoffVars, cacheVars>>

NextParse ==
    \/ Parse
    \/ \E done \in DoneStates : Render(done)
    \/ \E asShown \in BOOLEAN : Reparse(asShown)

SpecParse == InitParse /\ [][NextParse]_vars

----------------------------------------------------------------------------
(* Long checklists: message_text (lines 206-224) and keyboard (187-204) on   *)
(* the tasks of one section, with completion states that also hold indices   *)
(* no task has.                                                              *)

\* the most tasks of a long checklist
MaxTasks == 50

\* the section headings of a daily message
Headings ==
    { <<"SUN", " ", "Dnevnye", " ", "zadach", "-i", ":">>,
      <<"STOP", " ", "Nelzya", " ", "delat", ":">>,
      <<"MOON", " ", "Vechernie", " ", "zadach", "-i", ":">> }

\* the length of a long task label
LongLabel == 70

\* a heading and n tasks under it, and a heading and one task with a long
\* label
LongTexts ==
    { Join(<<h>> \o [i \in 1..n |-> <<"BULLET", " ", "x">>], "NL") :
          h \in Headings, n \in 0..MaxTasks }
    \cup { Join(<<h, <<"BULLET", " ">> \o Repeat("x", LongLabel)>>, "NL") :
          h \in Headings }

\* completion states: in every section the indices lo..hi, among them -1 and
\* indices beyond the last task
StaleDoneStates ==
    { [sec \in Sections |-> lo..hi] : lo \in {-1, 0}, hi \in (-1)..(MaxTasks + 1) }

\* a long daily message has arrived
InitRender ==
    /\ InitServer
    /\ text \in LongTexts
    /\ tasks = NoTasks
    /\ rendered = <<>>
    /\ reparsed = NoTasks
    /\ stage = "received"
    /\ kb = <<>>
    /\ InitClient

NextRender ==
    \/ Parse
    \/ \E done \in StaleDoneStates : Render(done)

SpecRender == InitRender /\ [][NextRender]_vars

----------------------------------------------------------------------------
(* The webhook: webhook_handler (lines 295-321) with handle_callback         *)
(* (238-293), process_message (226-236) and the outbound client              *)
(* (TelegramAPIClient, 104-138).  Requests are handled one after the other;  *)
(* a handler runs from the arrival of its request to its first HTTP attempt  *)
(* in one step, and every attempt, every backoff sleep, every return of a    *)
(* call and the answer are steps.                                            *)

\* the attempts of one call (MAX_RETRIES, line 36)
MAX_RETRIES == 3

\* the longest text send lets through (MAX_MESSAGE_LENGTH, line 34)
MAX_MESSAGE_LENGTH == 4000

\* an address outside TELEGRAM_IP_RANGES, and a string that is no address
Outside == "out1"
Junk == "junk"

\* ipaddress.ip_address(client_ip) succeeds
IsAddress(ip) == ip # Junk

\* every address passes: the mutant of Allowlisted
AllowlistedAll(ip) == TRUE

\* line 299: any(ipaddress.ip_address(client_ip) in net for net in TELEGRAM_IP_RANGES)
Allowlisted(ip) == ip \in Origins

\* the answer of the rate limiter is not looked at: the mutant of Denied
DeniedNever(a) == FALSE

\* line 303: if not await self.limiter.allow(client_ip)
Denied(a) == ~a.ok

\* line 297: the first X-Forwarded-For entry, stripped, or the transport peer;
\* xff is the header split at its commas, <<>> when the header is absent
Resolve(xff, remote) == IF xff # <<>> /\ xff[1] # "" THEN xff[1] ELSE remote

\* a last part that always passes for an integer: the mutant of IsInt
IsIntAlways(s) == TRUE

\* int(s) succeeds
IsInt(s) == s \in {"0", "1"}

\* int(s)
IntOf(s) == IF s = "0" THEN 0 ELSE 1

\* an unknown tag taken for the day section: the mutant of SectionMap
SectionMapLenient(prefix) ==
    CASE prefix = "cant" -> "cant_do"
      [] prefix = "eve" -> "evening"
      [] OTHER -> "day"

\* line 267: section_map.get(prefix)
SectionMap(prefix) ==
    CASE prefix = "day" -> "day"
      [] prefix = "cant" -> "cant_do"
      [] prefix = "eve" -> "evening"
      [] OTHER -> "None"

\* str.replace(old, new): every occurrence of old, found from the left
RECURSIVE Replace(_, _, _)
Replace(t, old, new) ==
    LET at == {i \in 1..(Len(t) - Len(old) + 1) : SubSeq(t, i, i + Len(old) - 1) = old}
    IN  IF at = {} THEN t
        ELSE SubSeq(t, 1, Min(at) - 1) \o new
             \o Replace(SubSeq(t, Min(at) + Len(old), Len(t)), old, new)

\* an outbound call: the API method, the message it edits (0 for none), its
\* text and whether it carries a control layout (reply_markup)
Call(method, m, t, layout) == [method |-> method, msg |-> m, text |-> t, layout |-> layout]

\* line 129: "\n...[обрезано]", character by character
Marker == <<"NL", ".", ".", ".", "[", "o", "b", "r", "e", "z", "a", "n", "o", "]">>

\* lines 127-131: TelegramAPIClient.send
send(t, layout) ==
    Call("sendMessage", 0,
         IF Len(t) > MAX_MESSAGE_LENGTH
         THEN SubSeq(t, 1, MAX_MESSAGE_LENGTH - 100) \o Marker
         ELSE t,
         layout)

\* an edit that keeps the control layout: the mutant of edit
editWithLayout(m, t, layout) == Call("editMessageText", m, t, TRUE)

\* lines 133-135: TelegramAPIClient.edit
edit(m, t, layout) == Call("editMessageText", m, t, layout)

\* lines 137-138: TelegramAPIClient.answer_cb
answer_cb(t) == Call("answerCallbackQuery", 0, t, FALSE)

\* a toggle that writes the set of every section it has read back to the
\* store: the mutant of Toggle
ToggleStoringAll(st, m, sec, idx, t) ==
    LET got == StoreGet(st, <<m, sec>>, t)
        state == Flip(got.val, idx)
        st1 == StoreSet(got.store, <<m, sec>>, state, t)
        r1 == StoreGet(st1, <<m, "day">>, t)
        r2 == StoreGet(StoreSet(r1.store, <<m, "day">>, r1.val, t), <<m, "cant_do">>, t)
        r3 == StoreGet(StoreSet(r2.store, <<m, "cant_do">>, r2.val, t), <<m, "evening">>, t)
        saved == [s \in Sections |->
                    CASE s = "day" -> r1.val [] s = "cant_do" -> r2.val [] s = "evening" -> r3.val]
    IN  [store |-> StoreSet(r3.store, <<m, "evening">>, r3.val, t),
         done |-> [saved EXCEPT ![sec] = state]]

\* a toggle that flips its own copy of the set and stores nothing: the
\* mutant of Toggle for the commit of the change
ToggleWithoutSet(st, m, sec, idx, t) ==
    [store |-> st,
     done |-> [s \in Sections |->
                 IF s = sec THEN Flip(StoreGet(st, <<m, s>>, t).val, idx)
                 ELSE StoreGet(st, <<m, s>>, t).val]]

\* lines 273-285: the store after the toggle of idx of section sec of message
\* m at time t, and full_done
Toggle(st, m, sec, idx, t) ==
    LET got == StoreGet(st, <<m, sec>>, t)
        state == Flip(got.val, idx)
        st1 == StoreSet(got.store, <<m, sec>>, state, t)
        r1 == StoreGet(st1, <<m, "day">>, t)
        r2 == StoreGet(r1.store, <<m, "cant_do">>, t)
        r3 == StoreGet(r2.store, <<m, "evening">>, t)
        saved == [s \in Sections |->
                    CASE s = "day" -> r1.val [] s = "cant_do" -> r2.val [] s = "evening" -> r3.val]
    IN  [store |-> r3.store, done |-> [saved EXCEPT ![sec] = state]]

\* TaskTrackerBot.handle_callback for the control identifier data (split at
\* its underscores) on message m showing old_text: whether it raises, the
\* store it leaves and the calls it makes
handle_callback(data, m, old_text, st, t) ==
    IF data = <<"save">>
    THEN [raised |-> FALSE, store |-> st,
          calls |-> <<answer_cb(<<"Progress", " ", "sohranyon", "!">>),
                      edit(m, Replace(old_text,
                                      <<"Otmet", " ", "vypolnennye", " ", "zadach", "-i", ":">>,
                                      <<"PROGRESS", " ", "SOHRANYON", "NL", "NL",
                                        "VYPOLNENNYE", " ", "ZADACH", "-I", ":">>), FALSE)>>]
    ELSE IF data = <<"cancel">>
    THEN [raised |-> FALSE, store |-> st,
          calls |-> <<answer_cb(<<"Otmeneno">>),
                      edit(m, <<"OBNOVLENIE", " ", "OTMENENO">>, FALSE)>>]
    ELSE IF Len(data) >= 2 /\ data[1] = "toggle"
    THEN IF ~IsInt(data[Len(data)])
         THEN [raised |-> TRUE, store |-> st, calls |-> <<>>]
         ELSE IF SectionMap(data[2]) = "None"
         THEN [raised |-> FALSE, store |-> st, calls |-> <<>>]
         ELSE LET tg == Toggle(st, m, SectionMap(data[2]), IntOf(data[Len(data)]), t)
                  new_text == message_text(parse_tasks(old_text), tg.done)
              IN  [raised |-> FALSE, store |-> tg.store,
                   calls |-> <<answer_cb(<<>>), edit(m, new_text, TRUE)>>]
    ELSE [raised |-> FALSE, store |-> st, calls |-> <<>>]

\* TaskTrackerBot.process_message: the calls it makes
process_message(t) ==
    LET ts == parse_tasks(t)
    IN  IF \A sec \in Sections : ts[sec] = <<>> THEN <<>>
        ELSE <<send(message_text(ts, [sec \in Sections |-> {}]), TRUE)>>

\* a message of any chat is taken: the mutant of FromDestination
FromAnywhere(req) == TRUE

\* line 313: msg.get('chat', {}).get('id') == self.chat_id
FromDestination(req) == req.fromChat

\* line 315: any(x in text.lower() for x in ['задач', 'делать'])
HasKeyword(t) == \E i \in 1..Len(t) : Fold(t[i]) \in {"zadach", "delat"}

\* webhook_handler up to its first outbound call: the status it answers with
\* when it makes no call, the store and the rate limiter records it leaves,
\* whether it came to read the payload (line 306), and the calls it makes.
\* request.json() raises on a body that is no JSON (line 306); an interaction
\* event without its 'id' or 'message' raises KeyError at lines 240-241
Handled(req, st, reqs, ch, t) ==
    LET ip == Resolve(req.xff, req.remote)
        quiet(status, rq, classified) ==
            [status |-> status, store |-> st, requests |-> rq, classified |-> classified,
             dispatched |-> FALSE, calls |-> <<>>]
    IN  IF ~IsAddress(ip) THEN quiet(500, reqs, FALSE)
        ELSE IF ~Allowlisted(ip) THEN quiet(403, reqs, FALSE)
        ELSE LET a == RateAllow(reqs, ip, t)
             IN  IF Denied(a) THEN quiet(429, a.requests, FALSE)
                 ELSE IF req.kind = "invalid" THEN quiet(500, a.requests, FALSE)
                 ELSE IF req.kind = "callback_query" /\ req.msg = 0
                 THEN quiet(500, a.requests, TRUE)
                 ELSE IF req.kind = "callback_query"
                 THEN LET h == handle_callback(req.data, req.msg, Shown(ch[req.msg].text), st, t)
                      IN  [status |-> IF h.raised THEN 500 ELSE 200,
                           store |-> h.store, requests |-> a.requests, classified |-> TRUE,
                           dispatched |-> TRUE, calls |-> h.calls]
                 ELSE IF req.kind = "message" /\ FromDestination(req) /\ req.hasText /\ HasKeyword(req.text)
                 THEN [status |-> 200, store |-> st, requests |-> a.requests, classified |-> TRUE,
                       dispatched |-> FALSE, calls |-> process_message(req.text)]
                 ELSE quiet(200, a.requests, TRUE)

\* the texts of incoming chat messages
HookTexts ==
    { ScenarioText,
      <<"SUN", " ", "Dnevnye", " ", "zadach", "-i", ":", "NL", "BULLET", " ", "x", "NL",
        "TARGET", " ", "Cel", ":", " ", "y">>,
      <<"zadach", "-i", ":">>,
      <<"BULLET", " ", "x">> }

\* the control identifiers of incoming interaction events, split at "_"
ControlIds ==
    { <<"save">>, <<"cancel">>, <<"noop">>,
      <<"toggle", "day", "0">>, <<"toggle", "eve", "1">>,
      <<"toggle", "xyz", "0">>, <<"toggle", "day", "abc">>, <<"toggle", "xyz", "abc">> }

\* the origins of incoming requests: header entries and transport peer
Wires ==
    { [xff |-> <<>>, remote |-> "ip1"],
      [xff |-> <<"">>, remote |-> "ip2"],
      [xff |-> <<"ip1", Outside>>, remote |-> Outside],
      [xff |-> <<>>, remote |-> Outside],
      [xff |-> <<Outside, "ip1">>, remote |-> "ip1"],
      [xff |-> <<Junk>>, remote |-> "ip1"] }

\* the ids of the messages of the chat that are followed
MsgIds == {1}

\* the payloads of incoming requests when the chat holds the messages 1..n:
\* interaction events, messages of the destination chat, a message of
\* another chat and one without text, an update of another kind, a body that
\* is no JSON ("invalid") and an interaction event without its fields (msg 0)
Payloads(n) ==
    { [kind |-> "callback_query", data |-> d, msg |-> m, fromChat |-> TRUE, hasText |-> TRUE,
       text |-> <<>>] : d \in ControlIds, m \in 1..n }
    \cup { [kind |-> "message", data |-> <<>>, msg |-> 0, fromChat |-> TRUE, hasText |-> TRUE,
            text |-> t] : t \in HookTexts }
    \cup { [kind |-> "message", data |-> <<>>, msg |-> 0, fromChat |-> c, hasText |-> ~c,
            text |-> ScenarioText] : c \in BOOLEAN }
    \cup { [kind |-> k, data |-> <<>>, msg |-> 0, fromChat |-> TRUE, hasText |-> FALSE,
            text |-> <<>>] : k \in {"other", "invalid", "callback_query"} }

Request(w, p) ==
    [xff |-> w.xff, remote |-> w.remote, kind |-> p.kind, data |-> p.data, msg |-> p.msg,
     fromChat |-> p.fromChat, hasText |-> p.hasText, text |-> p.text]

\* what the handling of one more event makes of the trail of a message: the
\* trail counts the toggles of day-index 0 while nothing else was handled
TrailAfter(trail, data) ==
    IF data = <<"toggle", "day", "0">> /\ trail \in {"sent", "once"}
    THEN (IF trail = "sent" THEN "once" ELSE "twice")
    ELSE "other"

\* a webhook request arrives and is handled up to its first outbound attempt,
\* or to its answer when it makes no outbound call
Receive(req) ==
    /\ wpc = "idle"
    /\ LET h == Handled(req, store, requests, chat, now)
       IN  /\ store' = h.store
           /\ requests' = h.requests
           /\ wcalls' = h.calls
           /\ wpc' = IF h.calls = <<>> THEN "respond" ELSE "attempt"
           /\ wres' = [status |-> h.status, classified |-> h.classified]
           /\ chat' = IF h.dispatched
                      THEN [chat EXCEPT ![req.msg].trail = TrailAfter(@, req.data),
                                        ![req.msg].saved = (@ \/ req.data = <<"save">>)]
                      ELSE chat
    /\ ri' = 0
    /\ routs' = <<>>
    /\ rret' = "pending"
    /\ wreq' = req
    /\ wpre' = [store |-> store, requests |-> requests,
                layout |-> IF req.msg = 0 THEN FALSE ELSE chat[req.msg].layout,
                saved |-> IF req.msg = 0 THEN FALSE ELSE chat[req.msg].saved]
    /\ wacts' = NoActs
    /\ UNCHANGED <<now, lastOp, touch, lastAllow, admitted, deniedAt>>
    /\ UNCHANGED <<handlerVars, parseVars, clientVars, codecVars, backoffVars, cacheVars>>

\* the outcomes of one HTTP attempt: a response with the success flag, a
\* well-formed response without it, and an exception (transport failure,
\* timeout, a response that is no JSON object)
Outcomes == {"ok", "refused", "failed"}

\* a success that does not end the call: the mutant of Returns
ReturnsNever(outcome) == FALSE

\* lines 117-118: if data.get('ok'): return data['result']
Returns(outcome) == outcome = "ok"

\* line 121: i == MAX_RETRIES - 1
LastAttempt(i) == i = MAX_RETRIES - 1

\* what a successful call does to the messages the platform holds; of the
\* messages sent, those with the ids of MsgIds are followed
Applied(ch, call) ==
    IF call.method = "sendMessage"
    THEN IF Len(ch) < Cardinality(MsgIds)
         THEN Append(ch, [text |-> call.text, layout |-> call.layout, sent |-> call.text,
                          trail |-> "sent", saved |-> FALSE, edits |-> 0])
         ELSE ch
    ELSE IF call.method = "editMessageText"
    THEN [ch EXCEPT ![call.msg].text = call.text,
                    ![call.msg].layout = call.layout,
                    ![call.msg].edits = Min({@ + 1, 2})]
    ELSE ch

\* one pass of the loop of TelegramAPIClient.request (lines 111-124) for the
\* current call
Attempt(outcome) ==
    /\ wpc = "attempt"
    /\ LET call == Head(wcalls)
           sleeps == outcome = "failed" /\ ~LastAttempt(ri)
           over == IF Returns(outcome) THEN TRUE
                   ELSE IF outcome = "failed" THEN LastAttempt(ri)
                   ELSE ri + 1 >= MAX_RETRIES
       IN  /\ chat' = IF outcome = "ok" THEN Applied(chat, call) ELSE chat
           /\ routs' = Append(routs, outcome)
           /\ wacts' = [made |-> TRUE,
                        exhausted |-> IF over /\ ~Returns(outcome)
                                         /\ call.method \in {"sendMessage", "editMessageText"}
                                      THEN TRUE ELSE wacts.exhausted]
           /\ rret' = IF ~over THEN "pending" ELSE IF Returns(outcome) THEN "result" ELSE "None"
           /\ ri' = IF over \/ sleeps THEN ri ELSE ri + 1
           /\ wpc' = IF over THEN "returned" ELSE IF sleeps THEN "sleep" ELSE "attempt"
    /\ UNCHANGED <<wcalls, wreq, wres, wpre>>
    /\ UNCHANGED <<now, storeVars, rateVars, handlerVars, parseVars, clientVars, codecVars, backoffVars, cacheVars>>

\* line 124: await asyncio.sleep(...) is over, the loop goes on
Sleep ==
    /\ wpc = "sleep"
    /\ wpc' = "attempt"
    /\ ri' = ri + 1
    /\ UNCHANGED <<wcalls, chat, routs, rret, wreq, wres, wpre, wacts>>
    /\ UNCHANGED <<now, storeVars, rateVars, handlerVars, parseVars, clientVars, codecVars, backoffVars, cacheVars>>

\* the call has returned to the handler, which ignores the result but for a
\* log line and goes on to its next call or to its answer
Return ==
    /\ wpc = "returned"
    /\ wcalls' = Tail(wcalls)
    /\ wpc' = IF Tail(wcalls) = <<>> THEN "respond" ELSE "attempt"
    /\ ri' = 0
    /\ routs' = <<>>
    /\ rret' = "pending"
    /\ UNCHANGED <<chat, wreq, wres, wpre, wacts>>
    /\ UNCHANGED <<now, storeVars, rateVars, handlerVars, parseVars, clientVars, codecVars, backoffVars, cacheVars>>

\* lines 301, 304, 318, 321: the handler answers
Respond ==
    /\ wpc = "respond"
    /\ wpc' = "idle"
    /\ wreq' = NoRequest
    /\ wres' = NoResponse
    /\ wpre' = NoSnapshot
    /\ wacts' = NoActs
    /\ UNCHANGED <<wcalls, ri, chat, routs, rret>>
    /\ UNCHANGED <<now, storeVars, rateVars, handlerVars, parseVars, clientVars, codecVars, backoffVars, cacheVars>>

NextHook ==
    \/ \E w \in Wires : \E p \in Payloads(Len(chat)) : Receive(Request(w, p))
    \/ \E outcome \in Outcomes : Attempt(outcome)
    \/ Sleep
    \/ Return
    \/ Respond

SpecHook == Init /\ [][NextHook]_vars

----------------------------------------------------------------------------
(* The client driven directly: TelegramAPIClient.send and edit applied to   *)
(* texts of the lengths around MAX_MESSAGE_LENGTH.                          *)

\* how far below and above MAX_MESSAGE_LENGTH the lengths of the texts go
Margin == 100

\* the texts handed to the client, one of each length
ClientTexts ==
    { Repeat("x", n) : n \in (MAX_MESSAGE_LENGTH - Margin)..(MAX_MESSAGE_LENGTH + Margin) }

\* a text is about to be handed to the client
InitOutbound ==
    /\ InitServer
    /\ InitNoMessage
    /\ ctext \in ClientTexts
    /\ cwire = NoCall

\* lines 127-131: client.send(text, reply_markup=kb) builds its payload
ClientSend ==
    /\ cwire = NoCall
    /\ cwire' = send(ctext, TRUE)
    /\ UNCHANGED ctext
    /\ UNCHANGED <<now, storeVars, rateVars, handlerVars, parseVars, hookVars, codecVars, backoffVars, cacheVars>>

\* lines 133-135: client.edit(msg_id, text, ...) builds its payload
ClientEdit(layout) ==
    /\ cwire = NoCall
    /\ cwire' = edit(1, ctext, layout)
    /\ UNCHANGED ctext
    /\ UNCHANGED <<now, storeVars, rateVars, handlerVars, parseVars, hookVars, codecVars, backoffVars, cacheVars>>

NextClient ==
    \/ ClientSend
    \/ \E layout \in BOOLEAN : ClientEdit(layout)

SpecClient == InitOutbound /\ [][NextClient]_vars

----------------------------------------------------------------------------
(* The control identifier on its way: keyboard writes it for a task (line    *)
(* 199), the platform hands it back in the interaction event, and            *)
(* handle_callback takes it apart (lines 263-268).  The identifier is kept   *)
(* character by character.                                                   *)

\* the largest task index an identifier is written for
MaxIndex == 120

\* the decimal digits
DigitChars == <<"0", "1", "2", "3", "4", "5", "6", "7", "8", "9">>

\* str(i) for i >= 0, as f"{i}" of line 199 writes it
RECURSIVE Decimal(_)
Decimal(i) ==
    IF i < 10 THEN <<DigitChars[i + 1]>>
    ELSE Decimal(i \div 10) \o <<DigitChars[(i % 10) + 1]>>

\* the characters of a part of an identifier
Spell(part) ==
    CASE part = "toggle" -> <<"t", "o", "g", "g", "l", "e">>
      [] part = "day" -> <<"d", "a", "y">>
      [] part = "cant" -> <<"c", "a", "n", "t">>
      [] part = "eve" -> <<"e", "v", "e">>
      [] OTHER -> Decimal(CHOOSE n \in 0..MaxIndex : ToString(n) = part)

\* the word a piece of an identifier spells, "" when it is no section tag
Word(chars) ==
    CASE chars = <<"d", "a", "y">> -> "day"
      [] chars = <<"c", "a", "n", "t">> -> "cant"
      [] chars = <<"e", "v", "e">> -> "eve"
      [] OTHER -> ""

\* the identifier of line 199 as the string it is
DataString(parts) == Join([k \in 1..Len(parts) |-> Spell(parts[k])], "_")

\* the value of a digit character
DigitValue(c) == (CHOOSE d \in 1..10 : DigitChars[d] = c) - 1

\* int(s) succeeds: digits behind at most one sign
IsNumeral(s) ==
    LET digits == IF s # <<>> /\ s[1] \in {"-", "+"} THEN Tail(s) ELSE s
    IN  digits # <<>> /\ \A k \in 1..Len(digits) : digits[k] \in {DigitChars[d] : d \in 1..10}

\* the value of a sequence of digits
RECURSIVE DigitsValue(_)
DigitsValue(digits) ==
    IF digits = <<>> THEN 0
    ELSE 10 * DigitsValue(SubSeq(digits, 1, Len(digits) - 1))
         + DigitValue(digits[Len(digits)])

\* int(s)
IntOfChars(s) ==
    IF s[1] = "-" THEN 0 - DigitsValue(Tail(s))
    ELSE IF s[1] = "+" THEN DigitsValue(Tail(s))
    ELSE DigitsValue(s)

\* line 263: data.startswith('toggle_')
IsToggleData(data) ==
    Len(data) >= 7 /\ SubSeq(data, 1, 7) = <<"t", "o", "g", "g", "l", "e", "_">>

\* lines 265-268 on the pieces of data.split('_'): prefix is piece 1, idx the
\* integer of the last piece, section the entry of section_map
DecodePieces(pieces) ==
    IF ~IsNumeral(pieces[Len(pieces)]) THEN [section |-> "ValueError", idx |-> -1]
    ELSE [section |-> SectionMap(Word(pieces[2])),
          idx |-> IntOfChars(pieces[Len(pieces)])]

\* lines 263-268: what handle_callback takes data for
Decode(data) ==
    IF IsToggleData(data) THEN DecodePieces(Split(data, "_")) ELSE NoTask

\* line 199: keyboard writes the identifier of task i of section sec
Encode(sec, i) ==
    /\ qdata = <<>>
    /\ qtask' = [section |-> sec, idx |-> i]
    /\ qdata' = DataString(CallbackData(Prefix(sec), i, <<"x">>))
    /\ UNCHANGED qdecoded
    /\ UNCHANGED <<now, storeVars, rateVars, handlerVars, parseVars, hookVars, clientVars, backoffVars, cacheVars>>

\* lines 263-268: handle_callback receives the identifier of a pressed button
Press ==
    /\ qdata # <<>>
    /\ qdecoded = NoTask
    /\ qdecoded' = Decode(qdata)
    /\ UNCHANGED <<qtask, qdata>>
    /\ UNCHANGED <<now, storeVars, rateVars, handlerVars, parseVars, hookVars, clientVars, backoffVars, cacheVars>>

NextCodec ==
    \/ \E sec \in Sections : \E i \in 0..MaxIndex : Encode(sec, i)
    \/ Press

SpecCodec == Init /\ [][NextCodec]_vars

----------------------------------------------------------------------------
(* The timing of TelegramAPIClient.request (lines 110-125): one call, its    *)
(* attempts, and the sleeps between them, on a clock of ticks.  An attempt   *)
(* takes some ticks; the event loop resumes a sleeping task when its delay   *)
(* has elapsed.                                                              *)

\* the ticks of a second
TicksPerSecond == 4

\* RETRY_BASE_DELAY = 1.0 (line 37), in ticks
RETRY_BASE_DELAY == 1 * TicksPerSecond

\* the values of random.uniform(0, 0.5) (line 124), in ticks
Jitters == 0..(TicksPerSecond \div 2)

\* the most ticks an attempt takes
MaxAttemptTicks == 2

\* a delay that does not grow with the attempts: the mutant of Delay
DelayFlat(i, jitter) == RETRY_BASE_DELAY + jitter

\* line 124: RETRY_BASE_DELAY * (2 ** i) + random.uniform(0, 0.5)
Delay(i, jitter) == RETRY_BASE_DELAY * 2^i + jitter

\* an entry of the history
Logged(event, i, at) == [event |-> event, i |-> i, at |-> at]

\* the time the attempt under way was started
StartedAt == blog[Len(blog)].at

\* client.request(...) is called: the loop starts its first attempt
BCall ==
    /\ bpc = "idle"
    /\ bpc' = "attempt"
    /\ bi' = 0
    /\ blog' = Append(blog, Logged("start", 0, bclock))
    /\ UNCHANGED <<bclock, bwake>>
    /\ UNCHANGED <<now, storeVars, rateVars, handlerVars, parseVars, hookVars, clientVars, codecVars, cacheVars>>

\* time passes: during an attempt, or during a sleep until it is due
BTick ==
    /\ IF bpc = "attempt" THEN bclock - StartedAt < MaxAttemptTicks
       ELSE bpc = "sleep" /\ bclock < bwake
    /\ bclock' = bclock + 1
    /\ UNCHANGED <<bpc, bi, bwake, blog>>
    /\ UNCHANGED <<now, storeVars, rateVars, handlerVars, parseVars, hookVars, clientVars, codecVars, cacheVars>>

\* lines 117-118: the response carries the success flag, the call returns
BSucceeds ==
    /\ bpc = "attempt"
    /\ bpc' = "done"
    /\ blog' = blog \o <<Logged("ok", bi, bclock), Logged("return", bi, bclock)>>
    /\ UNCHANGED <<bi, bclock, bwake>>
    /\ UNCHANGED <<now, storeVars, rateVars, handlerVars, parseVars, hookVars, clientVars, codecVars, cacheVars>>

\* line 119: a well-formed response without the success flag is logged and
\* the loop goes on at once, or ends behind the last attempt (line 125)
BRefused ==
    /\ bpc = "attempt"
    /\ IF LastAttempt(bi)
       THEN /\ bpc' = "done"
            /\ bi' = bi
            /\ blog' = blog \o <<Logged("refused", bi, bclock), Logged("return", bi, bclock)>>
       ELSE /\ bpc' = "attempt"
            /\ bi' = bi + 1
            /\ blog' = blog \o <<Logged("refused", bi, bclock), Logged("start", bi + 1, bclock)>>
    /\ UNCHANGED <<bclock, bwake>>
    /\ UNCHANGED <<now, storeVars, rateVars, handlerVars, parseVars, hookVars, clientVars, codecVars, cacheVars>>

\* lines 120-124: the attempt raises (transport failure, timeout, a response
\* that is no JSON object): behind the last attempt the loop ends, otherwise
\* the task sleeps
BFails(jitter) ==
    /\ bpc = "attempt"
    /\ IF LastAttempt(bi)
       THEN /\ bpc' = "done"
            /\ bwake' = bwake
            /\ blog' = blog \o <<Logged("failed", bi, bclock), Logged("return", bi, bclock)>>
       ELSE /\ bpc' = "sleep"
            /\ bwake' = bclock + Delay(bi, jitter)
            /\ blog' = Append(blog, Logged("failed", bi, bclock))
    /\ UNCHANGED <<bi, bclock>>
    /\ UNCHANGED <<now, storeVars, rateVars, handlerVars, parseVars, hookVars, clientVars, codecVars, cacheVars>>

\* line 124: the sleep is over, the loop starts its next attempt
BWake ==
    /\ bpc = "sleep"
    /\ bclock >= bwake
    /\ bpc' = "attempt"
    /\ bi' = bi + 1
    /\ blog' = Append(blog, Logged("start", bi + 1, bclock))
    /\ UNCHANGED <<bclock, bwake>>
    /\ UNCHANGED <<now, storeVars, rateVars, handlerVars, parseVars, hookVars, clientVars, codecVars, cacheVars>>

NextBackoff ==
    \/ BCall
    \/ BTick
    \/ BSucceeds
    \/ BRefused
    \/ \E jitter \in Jitters : BFails(jitter)
    \/ BWake

SpecBackoff == Init /\ [][NextBackoff]_vars

----------------------------------------------------------------------------
(* The cache of the notifier: CacheManager (src/notifier.py, lines 25-57)    *)
(* driven by get and set, with a clock.  Times are counted in ticks; the     *)
(* lengths of the second, the minute and the day are scaled down.            *)

\* the ticks of a second of the notifier's clock (datetime counts microseconds)
CacheTicks == 2

\* the seconds of a minute (the 60 of line 38), scaled
SecondsPerMinute == 2

\* the minutes of a day (a timedelta keeps whole days apart from the seconds
\* within the day), scaled
MinutesPerDay == 2

\* the ticks of a day
DayTicks == MinutesPerDay * SecondsPerMinute * CacheTicks

\* the clock runs over two days and a little more
MaxCacheClock == 2 * DayTicks + CacheTicks

\* notifier.py:18 MAX_CACHE_SIZE = 100, scaled
MAX_CACHE_SIZE == 2

\* cache keys, one more than the cache holds
CacheKeys == {"k1", "k2", "k3"}

\* the ttl_minutes get is called with (line 17: 30 by default), scaled
Ttls == {1}

\* the position of the entry of a key, 0 when there is none
CachePos(c, key) ==
    IF \E p \in 1..Len(c) : c[p].key = key
    THEN CHOOSE p \in 1..Len(c) : c[p].key = key
    ELSE 0

\* del self._cache[key]
CacheDel(c, key) == SelectSeq(c, LAMBDA e : e.key # key)

\* the whole age of an entry in seconds: the mutant of DeltaSeconds
DeltaTotalSeconds(delta) == delta \div CacheTicks

\* timedelta.seconds: the seconds within the day, the days and the fraction
\* of a second left out
DeltaSeconds(delta) == (delta % DayTicks) \div CacheTicks

\* lines 38, 40: age_minutes > ttl_minutes with age_minutes = seconds / 60
OverAge(seconds, ttl_minutes) == seconds > ttl_minutes * SecondsPerMinute

\* CacheManager.get (lines 32-44)
CacheGet(key, ttl_minutes) ==
    /\ LET p == CachePos(ncache, key)
       IN  IF p = 0
           THEN /\ ncache' = ncache
                /\ nlast' = [op |-> "get", key |-> key, ttl |-> ttl_minutes,
                             ret |-> "None", age |-> -1]
           ELSE IF OverAge(DeltaSeconds(nclock - ncache[p].at), ttl_minutes)
           THEN /\ ncache' = CacheDel(ncache, key)
                /\ nlast' = [op |-> "get", key |-> key, ttl |-> ttl_minutes,
                             ret |-> "None", age |-> nclock - ncache[p].at]
           ELSE /\ ncache' = ncache
                /\ nlast' = [op |-> "get", key |-> key, ttl |-> ttl_minutes,
                             ret |-> ncache[p].value, age |-> nclock - ncache[p].at]
    /\ UNCHANGED nclock
    /\ UNCHANGED <<now, storeVars, rateVars, handlerVars, parseVars, hookVars, clientVars, codecVars, backoffVars>>

\* self._cache[key] = (now, value): an entry of a key the dict holds keeps
\* its place, a new key goes to the end
CachePut(c, key, at) ==
    IF CachePos(c, key) = 0 THEN Append(c, [key |-> key, at |-> at, value |-> "w"])
    ELSE [c EXCEPT ![CachePos(c, key)] = [key |-> key, at |-> at, value |-> "w"]]

\* CacheManager.set (lines 46-53)
CacheSet(key) ==
    /\ ncache' = CachePut(IF Len(ncache) >= MAX_CACHE_SIZE THEN Tail(ncache) ELSE ncache,
                          key, nclock)
    /\ nlast' = [op |-> "set", key |-> key, ttl |-> 0, ret |-> "None", age |-> -1]
    /\ UNCHANGED nclock
    /\ UNCHANGED <<now, storeVars, rateVars, handlerVars, parseVars, hookVars, clientVars, codecVars, backoffVars>>

\* time passes
CacheTick ==
    /\ nclock < MaxCacheClock
    /\ nclock' = nclock + 1
    /\ UNCHANGED <<ncache, nlast>>
    /\ UNCHANGED <<now, storeVars, rateVars, handlerVars, parseVars, hookVars, clientVars, codecVars, backoffVars>>

NextCache ==
    \/ \E key \in CacheKeys : \E ttl_minutes \in Ttls : CacheGet(key, ttl_minutes)
    \/ \E key \in CacheKeys : CacheSet(key)
    \/ CacheTick

SpecCache == Init /\ [][NextCache]_vars

----------------------------------------------------------------------------
(* Properties of the state store *)

\* a set of a key that is not in the store, performed while the store is at its cap
SetNewAtCap(key, state) ==
    /\ Len(store) = MAX_STATE_SIZE
    /\ ~InStore(store, key)
    /\ lastOp'.key = key
    /\ Set(key, state)

\* a get of key
GetOf(key) ==
    /\ lastOp'.key = key
    /\ Get(key)

\* the time of the last set of a key in the store, from the history
SetAt(key) == TouchOf(touch, key).setAt

\* the time of the last get or set of a key in the store, from the history
TouchedAt(key) == TouchOf(touch, key).at

\* C3: when the store holds MAX_STATE_SIZE entries, set() of a key that is not
\* in the store removes exactly one entry, the one whose most recent get or
\* set is the oldest (a get on a live entry counts), and leaves the other
\* entries as they were.
C3_EvictsLeastRecentlyTouched ==
    [][\A key \in StoreKeys, state \in StateVals :
        SetNewAtCap(key, state) =>
            /\ KeysOf(store) \ KeysOf(store') = {LeastRecentlyTouched(touch)}
            /\ InStore(store', key)
            /\ \A k \in KeysOf(store) \ {LeastRecentlyTouched(touch)} :
                   Entry(store', k) = Entry(store, k)]_vars

\* C3 witness: a set at the cap has evicted an entry although an entry that
\* was written before it is still stored, because that one was read since.
C3_Witness ==
    /\ lastOp.op = "set"
    /\ Len(store) = MAX_STATE_SIZE
    /\ Cardinality(lastOp.removed) = 1
    /\ \E r \in lastOp.removed : \E k \in KeysOf(store) \ {lastOp.key} :
           /\ SetAt(k) < r.setAt
           /\ TouchedAt(k) > SetAt(k)

\* C4: after any sequence of get and set operations the store holds at most
\* MAX_STATE_SIZE entries.
C4_CapacityBound == Len(store) <= MAX_STATE_SIZE

\* C4 witness: the store is full right after a set that had to evict.
C4_Witness ==
    /\ lastOp.op = "set"
    /\ lastOp.removed # {}
    /\ Len(store) = MAX_STATE_SIZE

\* the keys of the entries that get would still return at time t
LiveKeys(st, t) == {k \in KeysOf(st) : t - Entry(st, k).ts < STATE_TTL_SECONDS}

\* C5 as claimed: a set() of a new key performed while the store holds
\* MAX_STATE_SIZE entries of which at least one is expired evicts no live entry.
C5_ExpiredNotCounted ==
    [][\A key \in StoreKeys, state \in StateVals :
        (SetNewAtCap(key, state) /\ LiveKeys(store, now) # KeysOf(store)) =>
            LiveKeys(store, now) \subseteq KeysOf(store')]_vars

\* C5 as amended: an expired entry counts toward the capacity until a get of
\* its key deletes it.  A set() of a new key at the cap leaves the store at the
\* cap and evicts the least-recently-touched entry whether it is expired or
\* live: a live entry is evicted exactly when that entry is live.
C5_ExpiredStillCounted ==
    [][\A key \in StoreKeys, state \in StateVals :
        SetNewAtCap(key, state) =>
            /\ Len(store') = MAX_STATE_SIZE
            /\ LiveKeys(store, now) \ KeysOf(store')
                 = LiveKeys(store, now) \cap {LeastRecentlyTouched(touch)}
            /\ (KeysOf(store) \ LiveKeys(store, now)) \ {LeastRecentlyTouched(touch)}
                 \subseteq KeysOf(store')]_vars

\* C5 witness: a set at the cap has evicted a live entry while an expired
\* entry stayed in the store.
C5_Witness ==
    /\ lastOp.op = "set"
    /\ InStore(store, lastOp.key)
    /\ LET t0 == Entry(store, lastOp.key).ts
       IN  /\ \E r \in lastOp.removed : t0 - r.setAt < STATE_TTL_SECONDS
           /\ \E k \in KeysOf(store) \ {lastOp.key} :
                  t0 - Entry(store, k).ts >= STATE_TTL_SECONDS

\* C6: get() on a key whose entry was stored the TTL or longer ago deletes the
\* entry (and no other) and returns what get() returns for a key that was
\* never set, the empty set, which leaves the store alone; get() on an entry
\* younger than the TTL returns the stored set and keeps the entry.
C6_GetExpiresLazily ==
    [][\A key \in StoreKeys :
        GetOf(key) =>
            /\ ~InStore(store, key) => (lastOp'.val = {} /\ store' = store)
            /\ (InStore(store, key) /\ now - SetAt(key) >= STATE_TTL_SECONDS) =>
                   /\ lastOp'.val = {}
                   /\ store' = Del(store, key)
            /\ (InStore(store, key) /\ now - SetAt(key) < STATE_TTL_SECONDS) =>
                   /\ lastOp'.val = Entry(store, key).state
                   /\ InStore(store', key)
                   /\ Entry(store', key).state = Entry(store, key).state]_vars

\* C6 witness: a get has just deleted an entry that had reached the TTL.
C6_Witness ==
    /\ lastOp.op = "get"
    /\ lastOp.val = {}
    /\ \E r \in lastOp.removed :
           /\ r.key = lastOp.key
           /\ now - r.setAt >= STATE_TTL_SECONDS
    /\ ~InStore(store, lastOp.key)

\* C7 as claimed: a get() on a live entry bumps its timestamp, so an entry whose
\* last get or set is less than the TTL ago is not treated as expired.
C7_ReadKeepsAlive ==
    [][\A key \in StoreKeys :
        (GetOf(key) /\ InStore(store, key) /\ now - TouchedAt(key) < STATE_TTL_SECONDS) =>
            InStore(store', key)]_vars

\* C7 as amended: a get() on a live entry moves it to the most recent position
\* and leaves its timestamp at the time of its last set; the entry is treated
\* as expired once the TTL has passed since that set, however recently it was
\* read.
C7_ReadKeepsTimestamp ==
    [][\A key \in StoreKeys :
        (GetOf(key) /\ InStore(store, key)) =>
            IF now - SetAt(key) < STATE_TTL_SECONDS
            THEN /\ InStore(store', key)
                 /\ Entry(store', key).ts = SetAt(key)
                 /\ store'[Len(store')].key = key
            ELSE ~InStore(store', key)]_vars

\* C7 witness: an entry has been read some time after it was set; it is the
\* most recent entry and still carries the time of its set.
C7_Witness ==
    /\ lastOp.op = "get"
    /\ InStore(store, lastOp.key)
    /\ TouchedAt(lastOp.key) > SetAt(lastOp.key)
    /\ Entry(store, lastOp.key).ts = SetAt(lastOp.key)
    /\ store[Len(store)].key = lastOp.key

----------------------------------------------------------------------------
(* Properties of the rate limiter *)

\* how many requests of an origin were admitted in the window that ends at t
AdmittedInWindow(key, t) ==
    Cardinality({i \in 1..Len(admitted[key]) : t - admitted[key][i] < RATE_WINDOW})

\* C9: allow admits a request of an origin if and only if fewer than
\* RATE_LIMIT requests of that origin were admitted in the RATE_WINDOW seconds
\* before it (so the request after RATE_LIMIT admitted ones in one window is
\* rejected, and a request RATE_WINDOW + 1 seconds after the origin's last one
\* is admitted), and it changes the record of no other origin.
C9_AdmitsBelowLimit ==
    [][\A key \in Origins :
        Allow(key) =>
            /\ lastAllow'.ok <=> (AdmittedInWindow(key, now) < RATE_LIMIT)
            /\ \A o \in Origins \ {key} :
                   /\ Lookup(requests', o) = Lookup(requests, o)
                   /\ admitted'[o] = admitted[o]]_vars

\* C9 witness: an origin that was denied with RATE_LIMIT admitted requests in
\* its window has been admitted again later, while the other origin was
\* admitted at the very time of the denial.
C9_Witness ==
    \E key \in Origins : \E o \in Origins \ {key} :
        /\ lastAllow = [key |-> key, at |-> now, ok |-> TRUE]
        /\ deniedAt[key] >= 0
        /\ AdmittedInWindow(key, deniedAt[key]) >= RATE_LIMIT
        /\ \E i \in 1..Len(admitted[o]) : admitted[o][i] = deniedAt[key]

\* C10: a denied allow records nothing: after it the origin's record holds
\* exactly the timestamps it held before that are still inside the window, in
\* the same order.
C10_DeniedNotRecorded ==
    [][\A key \in Origins :
        (Allow(key) /\ ~lastAllow'.ok) =>
            Lookup(requests', key)
              = SelectSeq(Lookup(requests, key), LAMBDA x : now - x < RATE_WINDOW)]_vars

\* C10 witness: a request has just been denied and the origin's record holds
\* RATE_LIMIT timestamps, all of them older than the denied request.
C10_Witness ==
    /\ lastAllow.ok = FALSE
    /\ lastAllow.key \in DOMAIN requests
    /\ Len(requests[lastAllow.key]) = RATE_LIMIT
    /\ \A i \in 1..Len(requests[lastAllow.key]) : requests[lastAllow.key][i] < lastAllow.at

----------------------------------------------------------------------------
(* Properties of concurrent toggles *)

\* the set get(key) would return now
Stored(key) == StoreGet(store, key, now).val

\* the handlers whose set of line 276 has been carried out
Toggled == {h \in Handlers : pc[h] \notin {"idle", "get", "flip", "set"}}

\* the indices toggled an odd number of times by the handlers in H
OddlyToggled(H) == {j \in Indices : Cardinality({h \in H : hidx[h] = j}) % 2 = 1}

\* a handler that has read the set of its key and not yet written it back
InReadFlipWrite(h) == pc[h] \in {"flip", "set"}

\* C2: when toggle events for the same (message, section) key are handled
\* concurrently, the read-flip-write of one handler never interleaves with
\* that of another, and no update is lost: once all handlers are done, the
\* stored completion set is the result of applying all their toggles one
\* after the other to the empty set the key started with (every serial order
\* gives the same set: an index is in it iff it was toggled an odd number of
\* times).
C2_NoLostUpdate ==
    /\ \A h \in Handlers : \A g \in Handlers \ {h} :
           ~(InReadFlipWrite(h) /\ InReadFlipWrite(g) /\ hsec[h] = hsec[g])
    /\ ((\A h \in Handlers : pc[h] = "done") /\ (\A h, g \in Handlers : hsec[h] = hsec[g]))
           => Stored(KeyOf(1)) = OddlyToggled(Handlers)

\* C2 witness: two handlers have toggled different indices of the same key,
\* the second one running its get, flip and set while the first was suspended
\* in its network calls, and both indices are stored.
C2_Witness ==
    /\ \A h \in Handlers : pc[h] = "done"
    /\ \A h, g \in Handlers : hsec[h] = hsec[g]
    /\ overlapped
    /\ \E h, g \in Handlers : hidx[h] # hidx[g]
    /\ Stored(KeyOf(1)) = OddlyToggled(Handlers)
    /\ Stored(KeyOf(1)) # {}

\* C8: one toggle (get, flip, set) flips the membership of idx in the set
\* get(key) returns and of no other index; starting from a key with no
\* entry, two toggles of the same idx leave get(key) returning the empty set.
C8_ToggleIsInvolution ==
    \A h \in Handlers :
        pc[h] = "read_day" =>
            /\ \A j \in Indices :
                   (j \in Stored(KeyOf(h))) <=>
                       (IF j = hidx[h] THEN j \notin hbefore[h] ELSE j \in hbefore[h])
            /\ \A g \in Handlers \ {h} :
                   ( /\ {k \in Toggled : hsec[k] = hsec[h]} = {g, h}
                     /\ hidx[g] = hidx[h]
                     /\ hfresh[g] ) => Stored(KeyOf(h)) = {}

\* C8 witness: the second of two toggles of the same index of a key that had
\* no entry has just stored its set, and get returns the empty set again.
C8_Witness ==
    \E h \in Handlers : \E g \in Handlers \ {h} :
        /\ pc[h] = "read_day"
        /\ {k \in Toggled : hsec[k] = hsec[h]} = {g, h}
        /\ hidx[g] = hidx[h]
        /\ hfresh[g]
        /\ hbefore[h] = {hidx[h]}
        /\ InStore(store, KeyOf(h))
        /\ Stored(KeyOf(h)) = {}

----------------------------------------------------------------------------
(* Properties of the parser and the renderer *)

\* C1: parse / render round trip: for the task lists T that parse_tasks
\* produced and any completion state S, parse_tasks applied to the text of
\* message_text(T, S) yields the same task lists with the same indices.
C1_RoundTrip == stage = "reparsed" => reparsed = tasks

----------------------------------------------------------------------------
(* Properties of the webhook *)

\* a request is being handled (its answer has not been given yet)
Handling == wreq # NoRequest

\* the resolved origin of the request being handled
ClientIp == Resolve(wreq.xff, wreq.remote)

\* C11: a webhook request whose resolved origin (first X-Forwarded-For entry,
\* else the transport peer) is an address outside every allowlisted range is
\* answered 403 at once; handling it changes neither the state store nor the
\* rate limiter records and makes no outbound call.
C11_OutsideOriginRejected ==
    (Handling /\ ClientIp = Outside) =>
        /\ wpc = "respond"
        /\ wres.status = 403
        /\ store = wpre.store
        /\ requests = wpre.requests
        /\ wcalls = <<>>
        /\ ~wacts.made

\* C11 witness: a request with a forwarded header naming an outside address
\* is about to be answered 403 while the store and the rate limiter hold
\* records of earlier requests.
C11_Witness ==
    /\ wpc = "respond"
    /\ wreq.xff # <<>>
    /\ ClientIp = Outside
    /\ wreq.kind = "callback_query"
    /\ wres.status = 403
    /\ store # <<>>
    /\ requests # <<>>
    /\ store = wpre.store
    /\ requests = wpre.requests

\* C12: a webhook request from an allowlisted origin that the rate limiter
\* denies is answered 429; handling it changes no state store entry, makes
\* no outbound call and does not read the payload.
C12_RateLimitedRejected ==
    (Handling /\ ClientIp \in Origins /\ ~RateAllow(wpre.requests, ClientIp, now).ok) =>
        /\ wpc = "respond"
        /\ wres.status = 429
        /\ wres.status # 403
        /\ store = wpre.store
        /\ wcalls = <<>>
        /\ ~wacts.made
        /\ ~wres.classified

\* C12 witness: a toggle event from an allowlisted origin that has used up its
\* rate window is about to be answered 429 with the store as it was.
C12_Witness ==
    /\ wpc = "respond"
    /\ ClientIp \in Origins
    /\ ~RateAllow(wpre.requests, ClientIp, now).ok
    /\ wreq.data = <<"toggle", "day", "0">>
    /\ wres.status = 429
    /\ store # <<>>
    /\ store = wpre.store

\* C13: a platform-reported logical error is not retried: after an attempt
\* that received a well-formed response without the success flag the client
\* makes no further attempt for that call and returns None.
C13_RefusedNotRetried ==
    \A k \in 1..Len(routs) :
        routs[k] = "refused" => (k = Len(routs) /\ wpc = "returned" /\ rret = "None")

\* C14: a call of TelegramAPIClient.request makes at most MAX_RETRIES HTTP
\* attempts; it returns the platform result at the first attempt whose
\* response carries the success flag and makes no attempt after it; it
\* returns None when no attempt succeeds; and no exception reaches its
\* caller: the webhook request that made the call is answered 200.
C14_RequestBounded ==
    /\ Len(routs) <= MAX_RETRIES
    /\ \A k \in 1..Len(routs) :
           routs[k] = "ok" => (k = Len(routs) /\ wpc = "returned" /\ rret = "result")
    /\ wpc = "returned" =>
           /\ routs # <<>>
           /\ rret = (IF routs[Len(routs)] = "ok" THEN "result" ELSE "None")
    /\ wpc \in {"attempt", "sleep"} => (Len(routs) < MAX_RETRIES /\ rret = "pending")
    /\ (wpc = "respond" /\ wacts.made) => wres.status = 200

\* C14 witness: an edit has returned None after MAX_RETRIES attempts, the
\* last of which raised.
C14_Witness ==
    /\ wpc = "returned"
    /\ Head(wcalls).method = "editMessageText"
    /\ Len(routs) = MAX_RETRIES
    /\ routs[1] = "refused"
    /\ routs[MAX_RETRIES] = "failed"
    /\ rret = "None"

\* C15: when a send or an edit made while handling a webhook request has
\* failed after using up its attempts, the request is answered 500.
C15_FailedCallAnswered500 ==
    (wpc = "respond" /\ wacts.exhausted) => wres.status = 500

\* the control identifiers of the toggles handle_callback is meant for
ValidToggles == {<<"toggle", tag, n>> : tag \in {"day", "cant", "eve"}, n \in {"0", "1"}}

\* an interaction event has reached handle_callback and is being handled
HandlingEvent == Handling /\ wres.classified /\ wreq.kind = "callback_query"

\* C16: save is terminal for a message: a toggle event for a message whose
\* save event has been handled before changes no state store entry and
\* makes no edit that carries a control layout.
C16_SaveIsTerminal ==
    (HandlingEvent /\ wreq.data \in ValidToggles /\ wpre.saved) =>
        /\ store = wpre.store
        /\ \A i \in 1..Len(wcalls) : ~wcalls[i].layout

\* C17: an interaction event whose control identifier is not save, not
\* cancel and not a toggle with a known section tag and an integer index is
\* dropped: handling it changes no state store entry and makes no edit (no
\* outbound call at all).
C17_UnknownControlDropped ==
    (HandlingEvent /\ wreq.data \notin ({<<"save">>, <<"cancel">>} \cup ValidToggles)) =>
        /\ wpc = "respond"
        /\ store = wpre.store
        /\ wcalls = <<>>
        /\ ~wacts.made

\* C17 witness: a toggle with an unknown section tag has been handled while
\* the store holds entries, and is about to be answered.
C17_Witness ==
    /\ HandlingEvent
    /\ wpc = "respond"
    /\ wreq.data = <<"toggle", "xyz", "0">>
    /\ store # <<>>
    /\ store = wpre.store
    /\ wres.status = 200

\* the completed / total count a checklist text shows, <<>> when it shows none
CountShown(t) ==
    LET at == {i \in 2..(Len(t) - 1) : t[i] = "/"}
    IN  IF at = {} THEN <<>> ELSE <<t[Min(at) - 1], t[Min(at) + 1]>>

\* C20: for a checklist message sent by process_message, after a toggle of
\* day-index 0 and a second toggle of day-index 0 have been handled and
\* nothing else, each having edited the message, the message shows the same
\* completed / total count as when it was sent.
C20_DoubleToggleKeepsCount ==
    \A m \in 1..Len(chat) :
        (wpc \in {"respond", "idle"} /\ chat[m].trail = "twice" /\ chat[m].edits = 2) =>
            CountShown(chat[m].text) = CountShown(chat[m].sent)

\* the bullets parse_tasks makes a task of section sec from: the positions
\* in safe of the bullets that start a line of the section's span and have a
\* label behind them (lines 175-180)
TaskBullets(sec, safe) ==
    LET m == Span(sec, safe)
        lineEnd(p) ==
            LET nls == {i \in p..m.upto : safe[i] = "NL"}
            IN  IF nls = {} THEN m.upto ELSE Min(nls) - 1
    IN  IF ~m.found THEN {}
        ELSE {p \in m.from..m.upto :
                 /\ safe[p] = "BULLET"
                 /\ (p = m.from \/ safe[p - 1] = "NL")
                 /\ Len(Strip(SubSeq(safe, p, lineEnd(p)))) >= 2}

\* parse_tasks returns one task per bullet of TaskBullets
TaskBulletsAreTheTasks ==
    stage # "received" =>
        \A sec \in Sections : Len(tasks[sec]) = Cardinality(TaskBullets(sec, Safe(text)))

\* C18: every task parse_tasks returns belongs to exactly one section: no
\* bullet line of the input is taken into the lists of two sections.
C18_OneSectionPerTask ==
    stage # "received" =>
        \A s1, s2 \in Sections :
            s1 # s2 => TaskBullets(s1, Safe(text)) \cap TaskBullets(s2, Safe(text)) = {}

\* the result the scenario text is to parse to
ScenarioTasks ==
    [day |-> << <<"Buy", " ", "milk">>, <<"Call", " ", "mom">> >>,
     cant_do |-> << <<"Smoke">> >>,
     evening |-> <<>>]

\* C19: the scenario text parses to day = [Buy milk, Call mom],
\* cant_do = [Smoke], evening = []; rendered with no completed index it
\* shows three unchecked tasks, no evening heading and the progress 0/3.
C19_Scenario ==
    text = ScenarioText =>
        /\ stage # "received" => tasks = ScenarioTasks
        /\ (stage \in {"rendered", "reparsed"}
              /\ rendered = message_text(tasks, [sec \in Sections |-> {}])) =>
               /\ Cardinality({i \in 1..Len(rendered) : rendered[i] = "UNCHECKED"}) = 3
               /\ \A i \in 1..Len(rendered) : rendered[i] # "VECHERNIE"
               /\ CountShown(rendered) = <<"0", "3">>

\* a set of a key that is in the store, performed while the store is at its cap
SetOldAtCap(key, state) ==
    /\ Len(store) = MAX_STATE_SIZE
    /\ InStore(store, key)
    /\ lastOp'.key = key
    /\ Set(key, state)

\* C27: the store evicts only before an insert that would exceed the cap: a
\* set() of a key that is already in the store, performed while the store
\* holds MAX_STATE_SIZE entries, removes no other entry and leaves the store
\* with MAX_STATE_SIZE entries.
C27_SetExistingEvictsNothing ==
    [][\A key \in StoreKeys, state \in StateVals :
        SetOldAtCap(key, state) =>
            /\ KeysOf(store') = KeysOf(store)
            /\ Len(store') = MAX_STATE_SIZE
            /\ \A k \in KeysOf(store) \ {key} : Entry(store', k) = Entry(store, k)]_vars

\* whether the store holds an entry for a key, and the completion set in it
StoredSet(st, key) ==
    IF InStore(st, key) THEN [stored |-> TRUE, state |-> Entry(st, key).state]
    ELSE [stored |-> FALSE, state |-> {}]

\* the key a toggle identifier names on message m
ToggleKey(m, data) == <<m, SectionMap(data[2])>>

\* C28: a toggle event for section s of message m changes only the completion
\* set stored under (m, s): the sets stored for the other sections of m and
\* for every other message are the same after the event as before it, also
\* when the store is at its cap.
C28_ToggleTouchesOneKey ==
    (HandlingEvent /\ wreq.data \in ValidToggles) =>
        \A key \in (KeysOf(store) \cup KeysOf(wpre.store)) \ {ToggleKey(wreq.msg, wreq.data)} :
            StoredSet(store, key) = StoredSet(wpre.store, key)

\* C29: origin validation answers 403 for every resolved origin that is not
\* inside an allowlisted range, including one that is no well-formed address.
C29_EveryBadOriginRejected ==
    (Handling /\ ~(IsAddress(ClientIp) /\ Allowlisted(ClientIp))) =>
        /\ wpc = "respond"
        /\ wres.status = 403

\* the key a webhook request is a toggle of, none for any other request
ToggleTargets(req) ==
    IF req.kind = "callback_query" /\ req.data \in ValidToggles
    THEN {ToggleKey(req.msg, req.data)} ELSE {}

\* C23: handling a plain message never creates, modifies or deletes a state
\* store entry, and no step gives the store an entry for a key other than the
\* target of the toggle being handled: not the parser, not the renderer, not
\* the reads of the other sections while a toggle is re-rendered.
C23_OnlyToggleTargetsStored ==
    [][/\ wreq'.kind = "message" => store' = store
       /\ KeysOf(store') \subseteq
              KeysOf(store) \cup (IF wpc = "idle" THEN ToggleTargets(wreq') ELSE {})]_vars

\* C23 witness: a plain message is being handled, its send is under way, and
\* the store holds the entries it held when the message arrived.
C23_Witness ==
    /\ Handling
    /\ wreq.kind = "message"
    /\ wpc = "attempt"
    /\ Head(wcalls).method = "sendMessage"
    /\ store # <<>>
    /\ store = wpre.store

\* the request being handled has passed the allowlist and the rate limiter
Admitted ==
    /\ Handling
    /\ IsAddress(ClientIp)
    /\ ClientIp \in Origins
    /\ wres.status # 429

\* handling the request has caused an outbound call: one is still to make or
\* under way, or one has been made
CausedCall == wcalls # <<>> \/ wacts.made

\* the calls still to make or under way are all of the given method
OnlyCalls(methods) == \A i \in 1..Len(wcalls) : wcalls[i].method \in methods

\* C24: classification of the payload of an admitted request.  An
\* interaction event is handled as one (it never causes a send).  A plain
\* message causes a send exactly when its chat is the destination, it has a
\* text with a task marker and parsing the text yields a task, and never
\* changes the store.  Any other payload is answered 200 with no outbound call
\* and no store change.
C24_Classification ==
    (Admitted /\ wreq.kind # "invalid") =>
        /\ wreq.kind = "callback_query" =>
               OnlyCalls({"answerCallbackQuery", "editMessageText"})
        /\ wreq.kind = "message" =>
               /\ store = wpre.store
               /\ OnlyCalls({"sendMessage"})
               /\ CausedCall <=>
                      /\ wreq.fromChat
                      /\ wreq.hasText
                      /\ \E i \in 1..Len(wreq.text) : Fold(wreq.text[i]) \in {"zadach", "delat"}
                      /\ \E sec \in Sections : parse_tasks(wreq.text)[sec] # <<>>
               /\ ~CausedCall => (wpc = "respond" /\ wres.status = 200)
        /\ wreq.kind = "other" =>
               /\ wpc = "respond"
               /\ wres.status = 200
               /\ wcalls = <<>>
               /\ ~wacts.made
               /\ store = wpre.store

\* C24 witness: a message of another chat whose text holds tasks has been
\* admitted and is answered 200 without any outbound call.
C24_Witness ==
    /\ Admitted
    /\ wreq.kind = "message"
    /\ ~wreq.fromChat
    /\ wreq.hasText
    /\ \E sec \in Sections : parse_tasks(wreq.text)[sec] # <<>>
    /\ wpc = "respond"
    /\ wres.status = 200
    /\ ~CausedCall

\* handling the request being handled raises an exception: the origin is no
\* address, or, once admitted, the body is no JSON, the interaction event
\* lacks its fields, or the index of a toggle is not a number
Raises ==
    \/ ~IsAddress(ClientIp)
    \/ /\ Admitted
       /\ \/ wreq.kind = "invalid"
          \/ /\ wreq.kind = "callback_query"
             /\ \/ wreq.msg = 0
                \/ /\ Len(wreq.data) >= 2
                   /\ wreq.data[1] = "toggle"
                   /\ wreq.data[Len(wreq.data)] \notin {"0", "1"}

\* C25: every webhook request is answered once, with a status in
\* {200, 403, 429, 500}; a request whose handling raises is answered 500
\* without any outbound call, and after the answer the next request can be
\* received.
C25_AlwaysAnswered ==
    /\ wpc = "respond" => wres.status \in {200, 403, 429, 500}
    /\ (Handling /\ wpc # "respond") => wres.status = 200
    /\ (Handling /\ Raises) => (wpc = "respond" /\ wres.status = 500 /\ ~CausedCall)
    /\ (Handling /\ wres.status = 500) => Raises
    /\ wpc = "respond" => ENABLED Respond
    /\ wpc = "idle" => (~Handling /\ \A w \in Wires : ENABLED Receive(Request(w, [kind |-> "other",
                           data |-> <<>>, msg |-> 0, fromChat |-> TRUE, hasText |-> FALSE,
                           text |-> <<>>])))

\* C25 witness: a toggle with a non-numeric index is answered 500 while the
\* store holds the entries of earlier toggles, untouched.
C25_Witness ==
    /\ Handling
    /\ wpc = "respond"
    /\ wreq.data = <<"toggle", "day", "abc">>
    /\ wres.status = 500
    /\ store # <<>>
    /\ store = wpre.store

----------------------------------------------------------------------------
(* Properties of the locks *)

\* the task of h is suspended inside an outbound call: behind the await of
\* answer_cb or of edit, which stands for the whole of request with its
\* attempts and backoff waits
InOutboundCall(h) == pc[h] \in {"edit", "done"} /\ running # h

----------------------------------------------------------------------------
(* Properties of the client *)

\* C21: for every outbound send and every outbound edit the text transmitted
\* has at most MAX_MESSAGE_LENGTH characters; a longer text is cut and ends
\* with the truncation marker, a text within the limit goes out as it is.
C21_TransmittedTextBounded ==
    cwire # NoCall =>
        /\ Len(cwire.text) <= MAX_MESSAGE_LENGTH
        /\ Len(ctext) <= MAX_MESSAGE_LENGTH => cwire.text = ctext
        /\ Len(ctext) > MAX_MESSAGE_LENGTH =>
               LET kept == Len(cwire.text) - Len(Marker)
               IN  /\ kept >= 0
                   /\ SubSeq(cwire.text, kept + 1, Len(cwire.text)) = Marker
                   /\ SubSeq(cwire.text, 1, kept) = SubSeq(ctext, 1, kept)

----------------------------------------------------------------------------
(* Properties of the control layout *)

\* len(data.encode()) of a control identifier given by its parts: the bytes
\* of the parts (ASCII, one byte per character) and of the underscores
\* between them
RECURSIVE ByteLen(_)
ByteLen(data) ==
    IF data = <<>> THEN 0
    ELSE Len(Head(data)) + (IF Len(data) > 1 THEN 1 ELSE 0) + ByteLen(Tail(data))

\* the control identifiers of a layout
IdsOf(layout) ==
    UNION {{layout[r][b].callback_data : b \in 1..Len(layout[r])} :
              r \in 1..Len(layout)}

\* C26: every control identifier keyboard places in a layout is at most 64
\* bytes long, whatever the length of the task labels: the identifiers are
\* noop, save, cancel and one toggle identifier per section and task index.
C26_ControlIdsFit ==
    stage = "rendered" =>
        /\ \A id \in IdsOf(kb) : ByteLen(id) <= MAX_CALLBACK_DATA_BYTES
        /\ IdsOf(kb) \subseteq
               {<<"noop">>, <<"save">>, <<"cancel">>}
               \cup UNION {{<<"toggle", Prefix(sec), ToString(i - 1)>> :
                               i \in 1..Len(tasks[sec])} : sec \in Sections}
        /\ \A sec \in Sections : \A i \in 1..Len(tasks[sec]) :
               <<"toggle", Prefix(sec), ToString(i - 1)>> \in IdsOf(kb)

\* C26 witness: a layout has been produced for a task whose label alone is
\* longer than 64 characters.
C26_Witness ==
    /\ stage = "rendered"
    /\ \E sec \in Sections : \E i \in 1..Len(tasks[sec]) : Len(tasks[sec][i]) > MAX_CALLBACK_DATA_BYTES
    /\ \E sec \in Sections : <<"toggle", Prefix(sec), "0">> \in IdsOf(kb)

----------------------------------------------------------------------------
(* Properties of the progress line *)

\* the number of times a symbol stands in the rendered text
Marks(m) == Cardinality({i \in DOMAIN rendered : rendered[i] = m})

\* C30: for any task lists and any completion state, also one with indices
\* that are negative or beyond the task list, the rendered text has one mark
\* per task, completed is the number of checked marks and is at most total,
\* the percentage shown is floor(100 * completed / total), the bar has
\* exactly 10 cells of which floor(percentage / 10) are filled, and with no
\* task there is no progress line.
C30_ProgressIsFloor ==
    stage = "rendered" =>
        LET completed == Marks("CHECKED")
            total == completed + Marks("UNCHECKED")
            percentage == (100 * completed) \div total
        IN  /\ total = Len(tasks["day"]) + Len(tasks["cant_do"]) + Len(tasks["evening"])
            /\ completed <= total
            /\ IF total = 0 THEN Marks("PROGRESS") = 0
               ELSE /\ Marks("PROGRESS") = 1
                    /\ percentage \in 0..100
                    /\ Marks("FULL") = percentage \div 10
                    /\ Marks("FULL") + Marks("EMPTY") = 10
                    /\ \E i \in DOMAIN rendered :
                           /\ rendered[i] = "%"
                           /\ rendered[i - 1] = ToString(percentage)
                           /\ rendered[i - 4] = ToString(total)
                           /\ rendered[i - 6] = ToString(completed)

----------------------------------------------------------------------------
(* Properties of the control identifier *)

\* the tasks identifiers are written for
CodecTasks == {[section |-> sec, idx |-> i] : sec \in Sections, i \in 0..MaxIndex}

\* C31: for every section s and every index i >= 0, the identifier keyboard
\* attaches to task i of section s is decoded by handle_callback to exactly
\* (s, i), and no other (section, index) pair gets the same identifier.
C31_IdentifierRoundTrip ==
    /\ qdecoded # NoTask => qdecoded = qtask
    /\ qdata # <<>> =>
           \A other \in CodecTasks \ {qtask} :
               DataString(<<"toggle", Prefix(other.section), ToString(other.idx)>>) # qdata

\* C31 witness: the identifier of a task with an index of three digits, in
\* the section whose name holds an underscore, has been decoded.
C31_Witness ==
    /\ qtask.section = "cant_do"
    /\ qtask.idx >= 100
    /\ qdecoded = qtask

----------------------------------------------------------------------------
(* Properties of save and cancel *)

\* a save or cancel event with its fields is being handled
SaveOrCancel ==
    HandlingEvent /\ wreq.msg # 0 /\ wreq.data \in {<<"save">>, <<"cancel">>}

\* C32: handling a save or a cancel event issues one acknowledge followed by
\* one edit of the message of the event that carries no control layout (for
\* cancel with the fixed cancellation notice as text), and from its arrival
\* to its answer every state store entry is as it was before.
C32_SaveCancelFrame ==
    [][ /\ (wpc = "idle" /\ SaveOrCancel') =>
               /\ Len(wcalls') = 2
               /\ wcalls'[1].method = "answerCallbackQuery"
               /\ wcalls'[2].method = "editMessageText"
               /\ wcalls'[2].msg = wreq'.msg
               /\ ~wcalls'[2].layout
               /\ wreq'.data = <<"cancel">> =>
                      wcalls'[2].text = <<"OBNOVLENIE", " ", "OTMENENO">>
        /\ SaveOrCancel' => store' = wpre'.store /\ Len(wcalls') <= 2
      ]_vars

\* C32 witness: a cancel event for a message with a stored completion set has
\* been handled to its answer, its edit has taken the layout off the message.
C32_Witness ==
    /\ SaveOrCancel
    /\ wreq.data = <<"cancel">>
    /\ wpc = "respond"
    /\ wpre.layout
    /\ ~chat[wreq.msg].layout
    /\ \E k \in KeysOf(store) : k[1] = wreq.msg

----------------------------------------------------------------------------
(* Properties of the commit of a toggle *)

\* a toggle event with its fields and a known section is being handled
HandlingToggle == HandlingEvent /\ wreq.msg # 0 /\ wreq.data \in ValidToggles

\* C33: a toggle commits its state store change before the acknowledge and
\* the edit go out and whatever comes of them: from the first attempt of the
\* acknowledge to the answer, also after the edit has failed on all its
\* attempts, the store holds under the key of the toggle the set it held at
\* arrival with the index flipped.
C33_ToggleCommittedBeforeCalls ==
    HandlingToggle =>
        LET key == ToggleKey(wreq.msg, wreq.data)
            idx == IF wreq.data[3] = "0" THEN 0 ELSE 1
            before == StoredSet(wpre.store, key).state
        IN  StoredSet(store, key) =
                [stored |-> TRUE, state |-> (before \ {idx}) \cup ({idx} \ before)]

\* C33 witness: the edit of a toggle of day task 0 has failed on all its
\* attempts; the message is as it was sent, every task unchecked, and the
\* store holds {0} for it.
C33_Witness ==
    /\ HandlingToggle
    /\ wreq.data = <<"toggle", "day", "0">>
    /\ wpc = "respond"
    /\ wacts.exhausted
    /\ chat[wreq.msg].text = chat[wreq.msg].sent
    /\ \E i \in 1..Len(chat[wreq.msg].text) : chat[wreq.msg].text[i] = "UNCHECKED"
    /\ \A i \in 1..Len(chat[wreq.msg].text) : chat[wreq.msg].text[i] # "CHECKED"
    /\ StoredSet(store, <<wreq.msg, "day">>) = [stored |-> TRUE, state |-> {0}]

----------------------------------------------------------------------------
(* Properties of the backoff *)

\* C34: after attempt k (k = 0, 1) of a call has failed with an exception,
\* the next attempt starts no earlier than RETRY_BASE_DELAY * 2^k and no
\* later than half a second more after the failure, and nothing starts
\* while that wait lasts; a failure of the final attempt is followed by the
\* return at once, with no wait.
C34_BackoffOrdering ==
    /\ \A n \in 1..Len(blog) :
           blog[n].event = "failed" =>
               /\ blog[n].i < MAX_RETRIES
               /\ n = Len(blog) =>
                      /\ bpc = "sleep"
                      /\ blog[n].i < MAX_RETRIES - 1
                      /\ bclock - blog[n].at <=
                             RETRY_BASE_DELAY * 2^(blog[n].i) + TicksPerSecond \div 2
               /\ (n < Len(blog) /\ blog[n].i = MAX_RETRIES - 1) =>
                      blog[n + 1] = [event |-> "return", i |-> blog[n].i, at |-> blog[n].at]
               /\ (n < Len(blog) /\ blog[n].i < MAX_RETRIES - 1) =>
                      /\ blog[n + 1].event = "start"
                      /\ blog[n + 1].i = blog[n].i + 1
                      /\ blog[n + 1].at - blog[n].at >= RETRY_BASE_DELAY * 2^(blog[n].i)
                      /\ blog[n + 1].at - blog[n].at <=
                             RETRY_BASE_DELAY * 2^(blog[n].i) + TicksPerSecond \div 2
    /\ Cardinality({n \in 1..Len(blog) : blog[n].event = "start"}) <= MAX_RETRIES

\* C34 witness: a call has returned after three failed attempts, the second
\* wait having been longer than the first.
C34_Witness ==
    /\ bpc = "done"
    /\ Cardinality({n \in 1..Len(blog) : blog[n].event = "failed"}) = MAX_RETRIES
    /\ blog[Len(blog)].event = "return"
    /\ blog[5].at - blog[4].at > blog[3].at - blog[2].at

----------------------------------------------------------------------------
(* Properties of the notifier's cache *)

\* C35: CacheManager.get(key, ttl_minutes) never returns a value stored more
\* than ttl_minutes earlier: whatever the age of the entry it finds, also an
\* age of more than a day, an entry older than ttl_minutes is deleted and
\* None is returned.
C35_NeverReturnsOverAge ==
    (nlast.op = "get" /\ nlast.age > nlast.ttl * SecondsPerMinute * CacheTicks) =>
        /\ nlast.ret = "None"
        /\ CachePos(ncache, nlast.key) = 0

=============================================================================
